---- MODULE Spec2Model ----
(***************************************************************************)
(* Verification model of Vojavy/music_bot.                                 *)
(*                                                                         *)
(* Part I   - the retry wrappers of the downloaders                        *)
(*            (YouTubeDownloader._run_ytdlp, SpotifyDownloader._run_spotdl)*)
(*            and the public download() call around them.                  *)
(* Part II  - TagLookup._merge as a pure function.                         *)
(* Part III - TagLookup.lookup, one action per numbered step.              *)
(* Part IV  - TagLookup._musicbrainz_metadata as a function.               *)
(* Part V   - the per-file pipeline of the message handlers: lookup, then  *)
(*            _sanitize_for_embed, then embed, for concurrent tasks.       *)
(* Part VI  - _sanitize_for_embed, _first_int and _year_from_date as       *)
(*            functions; strings are sequences of characters.              *)
(* Part VII - MetadataEmbedder.embed on one file.                          *)
(* Part VIII - FileDownloader.download_message on one upload.              *)
(* Part IX  - the message handlers of MusicBot for two requests handled    *)
(*            concurrently: authorization, fetch, lookup, embed, summary.  *)
(* Part X   - the release date of one file through lookup,                 *)
(*            _sanitize_for_embed and embed.                               *)
(* Part XI  - SpotifyDownloader._sync_download: a single track, and an     *)
(*            album or playlist.                                           *)
(*                                                                         *)
(* Python values: a dict is a function from a fixed key set to values,     *)
(* where MISSING stands for "key not in the dict", NONE for None and ""    *)
(* for the empty string.  Non-empty values carry the name of the source    *)
(* that produced them ("tag", "hint", "mb", "lf", "dc", "caa").            *)
(***************************************************************************)
EXTENDS Integers, Sequences, FiniteSets, TLC

VARIABLES
    \* ---- Part I : downloader ------------------------------------------
    platform,      \* which downloader handles the link: "youtube" | "spotify"
    link_type,     \* "track" | "list" (playlist / album)
    dpc,           \* position inside download() / _sync_download / the wrapper
    attempt,       \* loop variable of the retry wrapper
    delay,         \* local `delay` of the retry wrapper
    dl_warnings,   \* self.warnings of the downloader
    base,          \* Len(self.warnings) when the wrapper was entered (history)
    outs,          \* outcome of every run of the operation, in order (history)
    log,           \* run / ok / fail / sleep events of the wrapper (history)
    exc,           \* exception propagating out of the worker, or NoExc
    worker_ret,    \* number of (meta, path) pairs _sync_download returned
    ret,           \* value returned by download(), or NoRet
    \* ---- Part II : _merge as a function --------------------------------
    m_dst,         \* dst argument of _merge
    m_src,         \* src argument of _merge
    m_out,         \* <<dst after _merge(dst, src)>>, UNBOUND before the call
    \* ---- Part III : TagLookup.lookup -----------------------------------
    cfg,           \* LookupConfig
    hints,         \* hints argument
    lpc,           \* position inside lookup()
    meta,          \* local dict `meta`
    lk_warnings,   \* local list `warnings`
    artist_hint,   \* local artist_hint
    title_hint,    \* local title_hint
    recording_mbid,\* local recording_mbid
    release_mbid,  \* local release_mbid
    mb_meta,       \* local <<mb_meta>>, UNBOUND while the name is not in locals()
    lk_result,     \* what the call produced: "running" | "returned" | "raised"
    last,          \* the step taken last and whether its adapter raised (history)
    ran,           \* the adapters called so far (history)
    supplied,      \* the fragment each adapter returned, Empty if none (history)
    \* ---- Part IV : _musicbrainz_metadata as a function ------------------
    mb_args,       \* keyword arguments recording_mbid, release_mbid, artist, title
    mb_requests,   \* the GET requests issued, in order
    mb_ret,        \* <<[raised, value]>> after the call, UNBOUND before it
    \* ---- Part V : the pipeline of each file in the handlers -------------
    p_pc,          \* per file: the stage its task is at
    p_wait,        \* per file: the task is suspended in an await of that stage
    p_hist,        \* per file: the stage events so far, in order (history)
    \* ---- Part VI : _sanitize_for_embed as a function --------------------
    n_in,          \* the record handed to _sanitize_for_embed
    n_once,        \* <<_sanitize_for_embed(n_in)>>, UNBOUND before the call
    n_twice,       \* <<_sanitize_for_embed of that result>>, UNBOUND before
    \* ---- Part VII : MetadataEmbedder.embed ------------------------------
    e_suffix,      \* filepath.suffix
    e_file,        \* the file on disk: container validity, tags, cover
    e_orig,        \* the file on disk when embed was called (history)
    e_meta,        \* the meta argument
    e_cover,       \* the cover_bytes argument
    e_opened,      \* the file was opened by a container parser (history)
    e_result,      \* outcome of the call: [status, msg]
    \* ---- Part VIII : FileDownloader.download_message --------------------
    fd_in,         \* the message payload and the configured whitelist
    fd_out,        \* <<what the call returned and did>>, UNBOUND before it
    \* ---- Part IX : the message handlers, for concurrent requests --------
    rq_in,         \* per request: the sender and what the message holds
    rq_pc,         \* per request: position of its handler task
    rq_todo,       \* per request: the items of `successes` not yet iterated
    rq_succ,       \* per request: new_successes
    rq_fail,       \* per request: failures
    rq_lists,      \* the warning lists on the heap, by the downloader owning them
    rq_writing,    \* per request: the paths its fetch or embed is mutating now
    rq_ops,        \* per request: the operations performed so far (history)
    rq_own,        \* per request: the warnings its own steps produced (history)
    rq_err,        \* per request: the items whose embed raised (history)
    rq_out,        \* per request: <<the final reply>>, UNBOUND before it
    \* ---- Part X : the release date of one file through the pipeline -----
    d_in,          \* the file's date tag, the hint and the configuration flags
    d_pc,          \* "lookup" | "normalize" | "embed" | "done"
    d_meta,        \* the record: keys date and release_date
    d_file,        \* the date tag stored in the file
    \* ---- Part XI : SpotifyDownloader._sync_download ---------------------
    sp_in,         \* link_type and the tracks the API lists for the link
    sp_pc,         \* "start" | "globbing" | "done"
    sp_dir,        \* the .m4a files of the output directory: file -> mtime, 0 = absent
    sp_clock,      \* the time of the last write to the directory
    sp_ret         \* <<[raised, pairs]>> after the call, UNBOUND before it

retryVars  == <<platform, link_type, dpc, attempt, delay, dl_warnings, base,
                outs, log, exc, worker_ret, ret>>
mergeVars  == <<m_dst, m_src, m_out>>
lookupVars == <<cfg, hints, lpc, meta, lk_warnings, artist_hint, title_hint,
                recording_mbid, release_mbid, mb_meta, lk_result, last, ran, supplied>>
mbVars     == <<mb_args, mb_requests, mb_ret>>
pipeVars   == <<p_pc, p_wait, p_hist>>
normVars   == <<n_in, n_once, n_twice>>
embedVars  == <<e_suffix, e_file, e_orig, e_meta, e_cover, e_opened, e_result>>
fileVars   == <<fd_in, fd_out>>
reqVars    == <<rq_in, rq_pc, rq_todo, rq_succ, rq_fail, rq_lists, rq_writing, rq_ops, rq_own, rq_err, rq_out>>
dateVars   == <<d_in, d_pc, d_meta, d_file>>
spVars     == <<sp_in, sp_pc, sp_dir, sp_clock, sp_ret>>
vars       == <<retryVars, mergeVars, lookupVars, mbVars, pipeVars, normVars, embedVars, fileVars, reqVars, dateVars, spVars>>

\* what an action of one part leaves alone
exceptRetry  == <<mergeVars, lookupVars, mbVars, pipeVars, normVars, embedVars, fileVars, reqVars, dateVars, spVars>>
exceptMerge  == <<retryVars, lookupVars, mbVars, pipeVars, normVars, embedVars, fileVars, reqVars, dateVars, spVars>>
exceptLookup == <<retryVars, mergeVars, mbVars, pipeVars, normVars, embedVars, fileVars, reqVars, dateVars, spVars>>
exceptMb     == <<retryVars, mergeVars, lookupVars, pipeVars, normVars, embedVars, fileVars, reqVars, dateVars, spVars>>
exceptPipe   == <<retryVars, mergeVars, lookupVars, mbVars, normVars, embedVars, fileVars, reqVars, dateVars, spVars>>
exceptNorm   == <<retryVars, mergeVars, lookupVars, mbVars, pipeVars, embedVars, fileVars, reqVars, dateVars, spVars>>
exceptEmbed  == <<retryVars, mergeVars, lookupVars, mbVars, pipeVars, normVars, fileVars, reqVars, dateVars, spVars>>
exceptFile   == <<retryVars, mergeVars, lookupVars, mbVars, pipeVars, normVars, embedVars, reqVars, dateVars, spVars>>
exceptReq    == <<retryVars, mergeVars, lookupVars, mbVars, pipeVars, normVars, embedVars, fileVars, dateVars, spVars>>
exceptDate   == <<retryVars, mergeVars, lookupVars, mbVars, pipeVars, normVars, embedVars, fileVars, reqVars, spVars>>
exceptSp     == <<retryVars, mergeVars, lookupVars, mbVars, pipeVars, normVars, embedVars, fileVars, reqVars, dateVars>>

(***************************************************************************)
(* Python values                                                           *)
(***************************************************************************)
MISSING == "<missing>"
NONE    == "<None>"
\* a local name that is not bound yet, as opposed to <<v>>, bound to v
UNBOUND == <<>>

\* Python truthiness of a dict value as read through dict.get(k)
Truthy(v) == v \notin {MISSING, NONE, ""}

\* a or b
Or(a, b) == IF Truthy(a) THEN a ELSE b

\* d.get(k): a missing key reads as None
Get(d, k) == IF d[k] = MISSING THEN NONE ELSE d[k]

(***************************************************************************)
(* PART I - retry wrappers and download()                                  *)
(***************************************************************************)
MAX_RETRIES   == 3
INITIAL_DELAY == 5

\* number of files a playlist / album download may leave in its directory
MaxFiles == 2

Platforms == {"youtube", "spotify"}
LinkTypes == {"track", "list"}

\* What one run of the wrapped operation can do: succeed, fail on a network
\* or process error, fail on invalid input, or fail to run at all (the
\* executable cannot be started, the disk cannot be written).
Outcomes == {"ok", "network", "invalid", "oserror"}

\* The exception class the operation raises for a failing outcome.
\* yt-dlp reports download and extraction errors as DownloadError;
\* subprocess.run(check=True) reports every nonzero exit of the CLI, whatever
\* its cause, as CalledProcessError and a failure to start it as OSError.
ExcClass(p, o) ==
    IF o = "oserror" THEN "OSError"
    ELSE IF p = "spotify" THEN "CalledProcessError"
    ELSE "DownloadError"

CaughtNarrow(p, cls) == cls = "CalledProcessError"
\* The except clause of the wrapper: `except Exception` in _run_ytdlp,
\* `except subprocess.CalledProcessError` in _run_spotdl.
Caught(p, cls) ==
    IF p = "youtube" THEN TRUE ELSE cls = "CalledProcessError"

NextDelayConstant(d) == d
\* delay *= 2
NextDelay(d) == d * 2

DownloadCatchesOnlyOSError(cls) == cls = "OSError"
\* `except Exception` around run_in_executor in download()
DownloadCatches(cls) == TRUE

\* context label handed to the wrapper: the url for a single track, the
\* folder name for a playlist / album
Context(lt) == IF lt = "track" THEN "url" ELSE "folder"

\* (context, "<tool> failed on attempt k: <detail>")
AttemptWarning(lt, k, o) ==
    [ctx |-> Context(lt), msg |-> [kind |-> "attempt failed", n |-> k, detail |-> o]]

\* a warning that does not come from the retry wrapper
PlainWarning(what) ==
    [ctx |-> "url", msg |-> [kind |-> what, n |-> 0, detail |-> "-"]]

\* RuntimeError("... failed after MAX_RETRIES attempts: <detail>")
TerminalError(o) ==
    [cls |-> "RuntimeError",
     msg |-> [kind |-> "failed after", n |-> MAX_RETRIES, detail |-> o]]

\* no exception is propagating
NoExc == [cls |-> "none", msg |-> [kind |-> "-", n |-> 0, detail |-> "-"]]

\* download() has not returned
NoRet == [returned |-> FALSE, successes |-> <<>>, failures |-> <<>>, warnings |-> <<>>]

\* any other exception
OtherError(cls, what) ==
    [cls |-> cls, msg |-> [kind |-> what, n |-> 0, detail |-> "-"]]

RetryInit ==
    /\ platform \in Platforms
    /\ link_type \in LinkTypes
    /\ dpc = "ready"
    /\ attempt = 0
    /\ delay = 0
    /\ dl_warnings = <<>>
    /\ base = 0
    /\ outs = <<>>
    /\ log = <<>>
    /\ exc = NoExc
    /\ worker_ret = 0
    /\ ret = NoRet

\* the downloader is not part of the run
RetryUnused ==
    /\ platform = "youtube"
    /\ link_type = "track"
    /\ dpc = "unused"
    /\ attempt = 0
    /\ delay = 0
    /\ dl_warnings = <<>>
    /\ base = 0
    /\ outs = <<>>
    /\ log = <<>>
    /\ exc = NoExc
    /\ worker_ret = 0
    /\ ret = NoRet

\* download(): reset self.warnings, hand _sync_download to the executor;
\* _sync_download dispatches on link_type.
DownloadBegin ==
    /\ dpc = "ready"
    /\ dl_warnings' = <<>>
    /\ dpc' = IF link_type = "track" THEN "enter"
              ELSE IF platform = "youtube" THEN "probe" ELSE "fetch_meta"
    /\ UNCHANGED <<platform, link_type, attempt, delay, base, outs, log, exc, worker_ret, ret>>
    /\ UNCHANGED exceptRetry

\* _download_playlist: the first probe; a failing probe is a warning only
YtProbe(ok) ==
    /\ dpc = "probe"
    /\ dl_warnings' = IF ok THEN dl_warnings
                      ELSE Append(dl_warnings, PlainWarning("probe failed"))
    /\ dpc' = "enter"
    /\ UNCHANGED <<platform, link_type, attempt, delay, base, outs, log, exc, worker_ret, ret>>
    /\ UNCHANGED exceptRetry

\* _sync_download of Spotify, album / playlist: _fetch_*_metadata raises on an
\* invalid url or a failing API call, before the wrapper is entered
SpFetchMeta(ok) ==
    /\ dpc = "fetch_meta"
    /\ IF ok
       THEN dpc' = "enter" /\ exc' = exc
       ELSE dpc' = "worker_raised" /\ exc' = OtherError("RuntimeError", "invalid url")
    /\ UNCHANGED <<platform, link_type, attempt, delay, dl_warnings, base, outs, log, worker_ret, ret>>
    /\ UNCHANGED exceptRetry

\* entry of _run_ytdlp / _run_spotdl: delay = INITIAL_DELAY, attempt = 1
WrapperEnter ==
    /\ dpc = "enter"
    /\ delay' = INITIAL_DELAY
    /\ attempt' = 1
    /\ base' = Len(dl_warnings)
    /\ dpc' = "retry"
    /\ UNCHANGED <<platform, link_type, dl_warnings, outs, log, exc, worker_ret, ret>>
    /\ UNCHANGED exceptRetry

\* one iteration of the for loop up to time.sleep: run the operation; on a
\* caught failure append the warning and either raise the terminal error
\* (last attempt) or go to sleep; a failure the except clause does not catch
\* propagates out of the wrapper.
RunAttempt(o) ==
    /\ dpc = "retry"
    /\ attempt \in 1..MAX_RETRIES
    /\ outs' = Append(outs, o)
    /\ IF o = "ok"
       THEN /\ log' = log \o << <<"run", attempt>>, <<"ok", attempt>> >>
            /\ dpc' = "post"
            /\ UNCHANGED <<dl_warnings, exc>>
       ELSE /\ log' = log \o << <<"run", attempt>>, <<"fail", attempt>> >>
            /\ IF Caught(platform, ExcClass(platform, o))
               THEN /\ dl_warnings' = Append(dl_warnings, AttemptWarning(link_type, attempt, o))
                    /\ IF attempt = MAX_RETRIES
                       THEN dpc' = "worker_raised" /\ exc' = TerminalError(o)
                       ELSE dpc' = "sleep" /\ exc' = exc
               ELSE /\ dpc' = "worker_raised"
                    /\ exc' = OtherError(ExcClass(platform, o), "uncaught")
                    /\ UNCHANGED dl_warnings
    /\ UNCHANGED <<platform, link_type, attempt, delay, base, worker_ret, ret>>
    /\ UNCHANGED exceptRetry

\* time.sleep(delay); delay *= 2; next iteration of the for loop
Sleep ==
    /\ dpc = "sleep"
    /\ log' = Append(log, <<"sleep", delay>>)
    /\ delay' = NextDelay(delay)
    /\ attempt' = attempt + 1
    /\ dpc' = "retry"
    /\ UNCHANGED <<platform, link_type, dl_warnings, base, outs, exc, worker_ret, ret>>
    /\ UNCHANGED exceptRetry

\* the rest of _download_single / _download_playlist / _download_track /
\* _sync_download after the wrapper returned: collect n files; a Spotify
\* track download raises when the directory holds no .m4a file; the
\* playlist re-probe of YouTube may add a warning.
Post(n, ok) ==
    /\ dpc = "post"
    /\ n \in 0..MaxFiles
    /\ link_type = "track" => n <= 1
    /\ (platform = "youtube" /\ link_type = "track") => n = 1
    /\ IF platform = "spotify" /\ link_type = "track" /\ n = 0
       THEN /\ dpc' = "worker_raised"
            /\ exc' = OtherError("RuntimeError", "no file")
            /\ UNCHANGED <<dl_warnings, worker_ret>>
       ELSE /\ dpc' = "worker_done"
            /\ worker_ret' = n
            /\ exc' = exc
            /\ dl_warnings' =
                 IF platform = "youtube" /\ link_type = "list" /\ ~ok
                 THEN Append(dl_warnings, PlainWarning("re-probe failed"))
                 ELSE dl_warnings
    /\ UNCHANGED <<platform, link_type, attempt, delay, base, outs, log, ret>>
    /\ UNCHANGED exceptRetry

\* download(): the await returns or raises; build the result triple
DownloadReturn ==
    /\ dpc \in {"worker_done", "worker_raised"}
    /\ IF dpc = "worker_done"
       THEN /\ ret' = [successes |-> [i \in 1..worker_ret |-> <<"meta", i>>],
                       failures  |-> <<>>,
                       warnings  |-> dl_warnings]
            /\ dpc' = "returned"
       ELSE IF DownloadCatches(exc.cls)
       THEN /\ ret' = [returned  |-> TRUE,
                       successes |-> <<>>,
                       failures  |-> << [item |-> "url", err |-> exc.msg] >>,
                       warnings  |-> dl_warnings]
            /\ dpc' = "returned"
       ELSE /\ ret' = ret
            /\ dpc' = "escaped"
    /\ UNCHANGED <<platform, link_type, attempt, delay, dl_warnings, base, outs, log, exc, worker_ret>>
    /\ UNCHANGED exceptRetry

RetryNext ==
    \/ DownloadBegin
    \/ \E ok \in BOOLEAN : YtProbe(ok)
    \/ \E ok \in BOOLEAN : SpFetchMeta(ok)
    \/ WrapperEnter
    \/ \E o \in Outcomes : RunAttempt(o)
    \/ Sleep
    \/ \E n \in 0..MaxFiles, ok \in BOOLEAN : Post(n, ok)
    \/ DownloadReturn

(***************************************************************************)
(* PART II - TagLookup._merge                                              *)
(***************************************************************************)
MergeOverwrites(dst, src) ==
    [k \in DOMAIN dst |->
        IF src[k] \in {MISSING, NONE} THEN dst[k] ELSE src[k]]
MergeSkipsEmpty(dst, src) ==
    [k \in DOMAIN dst |->
        IF ~Truthy(src[k]) THEN dst[k]
        ELSE IF ~Truthy(Get(dst, k)) THEN src[k]
        ELSE dst[k]]
\* for k, v in src.items(): skip v is None; write v when not dst.get(k)
Merge(dst, src) ==
    [k \in DOMAIN dst |->
        IF src[k] \in {MISSING, NONE} THEN dst[k]
        ELSE IF ~Truthy(Get(dst, k)) THEN src[k]
        ELSE dst[k]]

\* keys and values of the dicts _merge is applied to as a function
MergeKeys == {"title", "genre"}
DstVals   == {MISSING, NONE, "", "old"}
SrcVals   == {MISSING, NONE, "", "new"}

MergeInit ==
    /\ m_dst \in [MergeKeys -> DstVals]
    /\ m_src \in [MergeKeys -> SrcVals]
    /\ m_out = UNBOUND

MergeUnused ==
    /\ m_dst = [k \in MergeKeys |-> MISSING]
    /\ m_src = [k \in MergeKeys |-> MISSING]
    /\ m_out = UNBOUND

\* the call _merge(dst, src)
CallMerge ==
    /\ m_out = UNBOUND
    /\ m_out' = <<Merge(m_dst, m_src)>>
    /\ UNCHANGED <<m_dst, m_src>>
    /\ UNCHANGED exceptMerge

(***************************************************************************)
(* PART III - TagLookup.lookup                                             *)
(***************************************************************************)
\* the keys of the metadata dicts that the resolution steps read or write
Keys == {"title", "artist", "album", "genre", "release_date",
         "cover_bytes", "release_mbid", "cover_url"}

Empty == [k \in Keys |-> MISSING]

\* the dict literal with the entries of f
Dict(f) == [k \in Keys |-> IF k \in DOMAIN f THEN f[k] ELSE MISSING]

\* dict.update
Update(d, e) == [k \in Keys |-> IF e[k] # MISSING THEN e[k] ELSE d[k]]

\* confidence scores and thresholds, in tenths
Scores         == {3, 7}
MinConfidences == {0, 5}
\* longest response of the identification service
MaxResults == 2

\* LookupConfig; acoustid stands for `acoustid and cfg.acoustid_api_key`,
\* lastfm for lastfm_api_key, discogs for discogs_user_agent
Configs ==
    [enable : BOOLEAN, prefer_existing : BOOLEAN, acoustid : BOOLEAN,
     min_confidence : MinConfidences, fetch_cover_art : BOOLEAN,
     lastfm : BOOLEAN, discogs : BOOLEAN]

\* hints handed in by the caller: the downloaders pass a dict whose unknown
\* fields are None (or, for YouTube's album, the empty string)
HintMenu ==
    { Dict("title" :> t @@ "artist" :> a @@ "album" :> "" @@ "genre" :> NONE
           @@ "cover_bytes" :> NONE) :
      t \in {MISSING, "hint"}, a \in {NONE, "hint"} }

\* what mutagen finds in the file: it cannot be read ("error"), it is no
\* audio file mutagen knows ("none"), or it has a tag container
Files ==
    [kind : {"error", "none"}, title : {NONE}, artist : {NONE}, genre : {NONE}]
    \cup
    [kind : {"tags"}, title : {NONE, "tag"}, artist : {NONE, "tag"},
     genre : {NONE, "tag"}]

\* _read_existing_tags for a readable file
ReadExistingTags(f) ==
    IF f.kind = "none" THEN Empty
    ELSE Dict("title" :> f.title @@ "artist" :> f.artist @@ "album" :> NONE
              @@ "genre" :> f.genre)

ApplyHintsAlways(m, h, prefer) ==
    [k \in Keys |-> IF Truthy(h[k]) THEN h[k] ELSE m[k]]
ApplyHintsFillOnly(m, h, prefer) ==
    [k \in Keys |-> IF Truthy(h[k]) /\ ~Truthy(Get(m, k)) THEN h[k] ELSE m[k]]
\* step 2: for k, v in hints.items(): if v and (not prefer_existing or not
\* meta.get(k)): meta[k] = v
ApplyHints(m, h, prefer) ==
    [k \in Keys |->
        IF Truthy(h[k]) /\ (~prefer \/ ~Truthy(Get(m, k))) THEN h[k] ELSE m[k]]

\* the recording identifiers of the results of a response, by position
Rids == <<"r1", "r2", "r3", "r4">>

\* responses of the identification service: the fingerprint or the request
\* fails, or a list of results (score, recording id) arrives; the code reads
\* each result both as a 4-tuple (first loop) and as a dict (second loop)
FpInputs ==
    [ok : BOOLEAN, shape : {"tuple", "dict"},
     results : UNION { {[i \in 1..n |-> [score |-> sc[i], rid |-> Rids[i]]] :
                          sc \in [1..n -> Scores]} : n \in 0..MaxResults }]

RECURSIVE BestScore(_, _, _)
\* first loop of _fp_lookup: best_score starts at 0.0, a strictly higher
\* score replaces it
BestScore(results, i, best) ==
    IF i > Len(results) THEN best
    ELSE BestScore(results, i + 1,
                   IF results[i].score > best THEN results[i].score ELSE best)

RECURSIVE BestRec(_, _, _, _)
\* first loop of _fp_lookup: best_rec starts at None and follows best_score
BestRec(results, i, best, rec) ==
    IF i > Len(results) THEN rec
    ELSE IF results[i].score > best
         THEN BestRec(results, i + 1, results[i].score, results[i].rid)
         ELSE BestRec(results, i + 1, best, rec)

FpLookupNoGate(in, min_confidence) ==
    IF ~in.ok \/ Len(in.results) > 0 THEN
        [raised |-> TRUE, low |-> -1, recording |-> NONE, release |-> NONE]
    ELSE
        [raised |-> FALSE, low |-> -1, recording |-> NONE, release |-> NONE]
\* _fp_lookup: [raised, low (the score of the low-score warning or -1),
\* recording, release]; best_rec is computed and never returned
FpLookup(in, min_confidence) ==
    IF ~in.ok THEN
        [raised |-> TRUE, low |-> -1, recording |-> NONE, release |-> NONE]
    ELSE IF in.shape = "dict" /\ Len(in.results) > 0 THEN
        \* unpacking a dict into score, rid, title_cand, artist_cand
        [raised |-> TRUE, low |-> -1, recording |-> NONE, release |-> NONE]
    ELSE IF BestScore(in.results, 1, 0) < min_confidence THEN
        [raised |-> FALSE, low |-> BestScore(in.results, 1, 0),
         recording |-> NONE, release |-> NONE]
    ELSE IF Len(in.results) > 0 THEN
        \* res.get("recordings") on a tuple
        [raised |-> TRUE, low |-> -1, recording |-> NONE, release |-> NONE]
    ELSE
        [raised |-> FALSE, low |-> -1, recording |-> NONE, release |-> NONE]

\* JSON answers of the catalog: a recording (title, artist credits, first
\* release) or a release (title, artist credits, date, id)
RecordingData ==
    [kind : {"recording"}, title : {"", "mb"}, credits : {0, 1},
     release : BOOLEAN, date : {NONE}]
ReleaseData ==
    [kind : {"release"}, title : {"mb"}, credits : {0, 1},
     release : {TRUE}, date : {NONE, "mb"}]
NoRecordings == [kind |-> "empty", title |-> NONE, credits |-> 0,
                 release |-> FALSE, date |-> NONE]
MbFailure    == [kind |-> "error", title |-> NONE, credits |-> 0,
                 release |-> FALSE, date |-> NONE]

\* _meta_from_mb_recording
MetaFromMbRecording(data) ==
    Dict("title" :> data.title
         @@ "artist" :> (IF data.credits = 0 THEN NONE ELSE "mb")
         @@ "album" :> (IF data.release THEN "mb" ELSE NONE)
         @@ "release_mbid" :> (IF data.release THEN "mbid" ELSE NONE))

\* _meta_from_mb_release
MetaFromMbRelease(data) ==
    Dict("album" :> data.title
         @@ "release_date" :> data.date
         @@ "release_mbid" :> "mbid")

MbRequestSearchFirst(rec, rel) ==
    IF ~(Truthy(rec) /\ Truthy(rel)) THEN "search"
    ELSE IF Truthy(rec) THEN "recording" ELSE "release"
\* the request _musicbrainz_metadata issues
MbRequest(rec, rel) ==
    IF Truthy(rec) THEN "recording" ELSE IF Truthy(rel) THEN "release" ELSE "search"

\* the answers the catalog can give to a request
MbResponses(req) ==
    {MbFailure} \cup
    (IF req = "release" THEN ReleaseData
     ELSE IF req = "recording" THEN RecordingData
     ELSE RecordingData \cup {NoRecordings})

\* _musicbrainz_metadata on an answer that arrived
MusicbrainzMetadata(req, data) ==
    IF data.kind = "empty" THEN Empty
    ELSE IF req = "release" THEN MetaFromMbRelease(data)
    ELSE MetaFromMbRecording(data)

\* answers of the cover art archive: an error, no cover (None), bytes
CoverResponses == {"error", NONE, "caa"}

\* answers of Last.fm: an error, or the track object
LfResponses ==
    [kind : {"error"}, name : {MISSING}, artist : {MISSING}, toptags : {MISSING}]
    \cup
    [kind : {"track"}, name : {MISSING, "lf"}, artist : {MISSING, "lf"},
     toptags : {MISSING, "", "lf"}]

\* _lastfm_enrich on an answer that arrived: only the fields present in the
\* track object are set; genre is the joined names of the top tags
LastfmEnrich(r) ==
    Dict("title" :> r.name @@ "artist" :> r.artist @@ "genre" :> r.toptags)

\* answers of Discogs: an error, no result, or the first release
DcResponses ==
    [kind : {"error", "empty"}, genre : {NONE}, year : {NONE}, cover_image : {NONE}]
    \cup
    [kind : {"release"}, genre : {NONE, "dc"}, year : {NONE, "dc"},
     cover_image : {NONE, "dc"}]

\* _discogs_enrich on an answer that arrived
DiscogsEnrich(r) ==
    IF r.kind = "empty" THEN Empty
    ELSE Dict("genre" :> r.genre @@ "release_date" :> r.year
              @@ "cover_url" :> r.cover_image)

Adapters == {"tags", "acoustid", "musicbrainz", "cover", "lastfm", "discogs"}

CatchesAllButCover(a) == a # "cover"
\* every adapter call of lookup sits in try / except Exception
Catches(a) == TRUE

\* (path.name, "<adapter> failed: <e>")
FailWarning(a) == [item |-> "file", msg |-> a, failed |-> TRUE, score |-> -1]
\* (path.name, "Low AcoustID score <best_score>")
LowScoreWarning(sc) == [item |-> "file", msg |-> "acoustid", failed |-> FALSE, score |-> sc]

LookupInit ==
    /\ cfg \in Configs
    /\ hints \in HintMenu
    /\ lpc = "s1"
    /\ meta = Empty
    /\ lk_warnings = <<>>
    /\ artist_hint = NONE
    /\ title_hint = NONE
    /\ recording_mbid = NONE
    /\ release_mbid = NONE
    /\ mb_meta = UNBOUND
    /\ lk_result = "running"
    /\ last = [step |-> "none", called |-> FALSE, raised |-> FALSE]
    /\ ran = {}
    /\ supplied = [a \in Adapters |-> Empty]

LookupUnused ==
    /\ cfg = [enable |-> FALSE, prefer_existing |-> TRUE, acoustid |-> FALSE,
              min_confidence |-> 5, fetch_cover_art |-> FALSE,
              lastfm |-> FALSE, discogs |-> FALSE]
    /\ hints = Empty
    /\ lpc = "unused"
    /\ meta = Empty
    /\ lk_warnings = <<>>
    /\ artist_hint = NONE
    /\ title_hint = NONE
    /\ recording_mbid = NONE
    /\ release_mbid = NONE
    /\ mb_meta = UNBOUND
    /\ lk_result = "running"
    /\ last = [step |-> "none", called |-> FALSE, raised |-> FALSE]
    /\ ran = {}
    /\ supplied = [a \in Adapters |-> Empty]

ResumeAborts(to) == "done"
\* where lookup goes on after an except clause: at the statement after it
Resume(to) == to

\* an adapter call of step `from` raised: the except clause appends the
\* warning and the step after it comes next
AdapterFailed(a, from, to) ==
    /\ last' = [step |-> from, called |-> TRUE, raised |-> TRUE]
    /\ ran' = ran \cup {a}
    /\ supplied' = supplied
    /\ IF Catches(a)
       THEN /\ lk_warnings' = Append(lk_warnings, FailWarning(a))
            /\ lpc' = Resume(to)
            /\ lk_result' = IF Resume(to) = "done" THEN "returned" ELSE lk_result
       ELSE /\ lk_warnings' = lk_warnings
            /\ lpc' = "done"
            /\ lk_result' = "raised"

\* the condition of a step does not hold: nothing is called
Skip(from, to) ==
    /\ last' = [step |-> from, called |-> FALSE, raised |-> FALSE]
    /\ lpc' = to
    /\ lk_result' = IF to = "done" THEN "returned" ELSE lk_result
    /\ UNCHANGED <<meta, lk_warnings, recording_mbid, release_mbid, mb_meta, ran,
                   supplied>>

\* an adapter call of step `from` returned the fragment frag
Called(a, from, to, frag) ==
    /\ last' = [step |-> from, called |-> TRUE, raised |-> FALSE]
    /\ ran' = ran \cup {a}
    /\ supplied' = [supplied EXCEPT ![a] = frag]
    /\ lpc' = to
    /\ lk_result' = IF to = "done" THEN "returned" ELSE lk_result

\* 1) existing tags
Step1(f) ==
    /\ lpc = "s1"
    /\ IF f.kind = "error"
       THEN AdapterFailed("tags", "s1", "s2") /\ meta' = meta
       ELSE /\ Called("tags", "s1", "s2", ReadExistingTags(f))
            /\ meta' = Update(meta, ReadExistingTags(f))
            /\ lk_warnings' = lk_warnings
    /\ UNCHANGED <<cfg, hints, artist_hint, title_hint, recording_mbid,
                   release_mbid, mb_meta>>
    /\ UNCHANGED exceptLookup

\* 2) merge hints; return when the lookup is disabled; collect the
\* candidate artist / title
Step2 ==
    /\ lpc = "s2"
    /\ meta' = ApplyHints(meta, hints, cfg.prefer_existing)
    /\ last' = [step |-> "s2", called |-> FALSE, raised |-> FALSE]
    /\ IF ~cfg.enable
       THEN /\ lpc' = "done"
            /\ lk_result' = "returned"
            /\ UNCHANGED <<artist_hint, title_hint>>
       ELSE /\ lpc' = "s3"
            /\ lk_result' = lk_result
            /\ artist_hint' = Or(Get(meta', "artist"), Get(hints, "artist"))
            /\ title_hint'  = Or(Get(meta', "title"), Get(hints, "title"))
    /\ UNCHANGED <<cfg, hints, lk_warnings, recording_mbid, release_mbid,
                   mb_meta, ran, supplied>>
    /\ UNCHANGED exceptLookup

\* 3) acoustic fingerprint -> MBIDs
Step3(in) ==
    /\ lpc = "s3"
    /\ IF ~cfg.acoustid
       THEN Skip("s3", "s4")
       ELSE LET r == FpLookup(in, cfg.min_confidence) IN
            IF r.raised
            THEN /\ AdapterFailed("acoustid", "s3", "s4")
                 /\ UNCHANGED <<meta, recording_mbid, release_mbid, mb_meta>>
            ELSE /\ Called("acoustid", "s3", "s4", Empty)
                 /\ lk_warnings' = IF r.low >= 0
                                   THEN Append(lk_warnings, LowScoreWarning(r.low))
                                   ELSE lk_warnings
                 /\ recording_mbid' = r.recording
                 /\ release_mbid' = r.release
                 /\ UNCHANGED <<meta, mb_meta>>
    /\ UNCHANGED <<cfg, hints, artist_hint, title_hint>>
    /\ UNCHANGED exceptLookup

\* 4) MusicBrainz metadata
Step4(data) ==
    /\ lpc = "s4"
    /\ IF ~(Truthy(recording_mbid) \/ Truthy(release_mbid)
            \/ Truthy(artist_hint) \/ Truthy(title_hint))
       THEN Skip("s4", "s5")
       ELSE /\ data \in MbResponses(MbRequest(recording_mbid, release_mbid))
            /\ IF data.kind = "error"
               THEN /\ AdapterFailed("musicbrainz", "s4", "s5")
                    /\ UNCHANGED <<meta, mb_meta>>
               ELSE /\ Called("musicbrainz", "s4", "s5", MusicbrainzMetadata(
                                       MbRequest(recording_mbid, release_mbid), data))
                    /\ mb_meta' = << MusicbrainzMetadata(
                                       MbRequest(recording_mbid, release_mbid), data) >>
                    /\ meta' = Merge(meta, mb_meta'[1])
                    /\ lk_warnings' = lk_warnings
            /\ UNCHANGED <<recording_mbid, release_mbid>>
    /\ UNCHANGED <<cfg, hints, artist_hint, title_hint>>
    /\ UNCHANGED exceptLookup

\* release_mbid or (mb_meta.get("release_mbid") if 'mb_meta' in locals() else None)
MbidForArt(rel, mb) ==
    IF Truthy(rel) THEN rel
    ELSE IF mb = UNBOUND THEN NONE ELSE Get(mb[1], "release_mbid")

\* 5) cover art
Step5(resp) ==
    /\ lpc = "s5"
    /\ IF ~(cfg.fetch_cover_art /\ ~Truthy(Get(meta, "cover_bytes"))
            /\ Truthy(MbidForArt(release_mbid, mb_meta)))
       THEN Skip("s5", "s6")
       ELSE /\ IF resp = "error"
               THEN AdapterFailed("cover", "s5", "s6") /\ meta' = meta
               ELSE /\ Called("cover", "s5", "s6", Dict("cover_bytes" :> resp))
                    /\ meta' = IF Truthy(resp)
                               THEN [meta EXCEPT !["cover_bytes"] = resp]
                               ELSE meta
                    /\ lk_warnings' = lk_warnings
            /\ UNCHANGED <<recording_mbid, release_mbid, mb_meta>>
    /\ UNCHANGED <<cfg, hints, artist_hint, title_hint>>
    /\ UNCHANGED exceptLookup

\* 6) Last.fm enrichment
Step6(resp) ==
    /\ lpc = "s6"
    /\ IF ~(cfg.lastfm /\ (Truthy(artist_hint) \/ Truthy(title_hint)))
       THEN Skip("s6", "s7")
       ELSE /\ IF resp.kind = "error"
               THEN AdapterFailed("lastfm", "s6", "s7") /\ meta' = meta
               ELSE /\ Called("lastfm", "s6", "s7", LastfmEnrich(resp))
                    /\ meta' = Merge(meta, LastfmEnrich(resp))
                    /\ lk_warnings' = lk_warnings
            /\ UNCHANGED <<recording_mbid, release_mbid, mb_meta>>
    /\ UNCHANGED <<cfg, hints, artist_hint, title_hint>>
    /\ UNCHANGED exceptLookup

\* 7) Discogs enrichment, then return meta, warnings
Step7(resp) ==
    /\ lpc = "s7"
    /\ IF ~(cfg.discogs /\ (Truthy(artist_hint) \/ Truthy(Get(meta, "album"))))
       THEN Skip("s7", "done")
       ELSE /\ IF resp.kind = "error"
               THEN AdapterFailed("discogs", "s7", "done") /\ meta' = meta
               ELSE /\ Called("discogs", "s7", "done", DiscogsEnrich(resp))
                    /\ meta' = Merge(meta, DiscogsEnrich(resp))
                    /\ lk_warnings' = lk_warnings
            /\ UNCHANGED <<recording_mbid, release_mbid, mb_meta>>
    /\ UNCHANGED <<cfg, hints, artist_hint, title_hint>>
    /\ UNCHANGED exceptLookup

LookupNext ==
    \/ \E f \in Files : Step1(f)
    \/ Step2
    \/ \E in \in FpInputs : Step3(in)
    \/ \E data \in RecordingData \cup ReleaseData \cup {NoRecordings, MbFailure} :
          Step4(data)
    \/ \E resp \in CoverResponses : Step5(resp)
    \/ \E resp \in LfResponses : Step6(resp)
    \/ \E resp \in DcResponses : Step7(resp)

(***************************************************************************)
(* PART IV - TagLookup._musicbrainz_metadata as a function                 *)
(***************************************************************************)
\* values of the keyword arguments: None, the empty string, a value
ArgVals == {NONE, "", "given"}

\* query = " AND ".join(q_parts) or title or artist
Query(artist, title) ==
    IF Truthy(artist) \/ Truthy(title) THEN "parts"
    ELSE Or(Or("", title), artist)

MbInit ==
    /\ mb_args \in [recording_mbid : ArgVals, release_mbid : ArgVals,
                    artist : ArgVals, title : ArgVals]
    /\ mb_requests = <<>>
    /\ mb_ret = UNBOUND

MbUnused ==
    /\ mb_args = [recording_mbid |-> NONE, release_mbid |-> NONE,
                  artist |-> NONE, title |-> NONE]
    /\ mb_requests = <<>>
    /\ mb_ret = UNBOUND

\* the call _musicbrainz_metadata(**mb_args), the catalog answering `data`:
\* quote(None) raises before the search request is sent; a request that
\* fails raises after it was sent
CallMusicbrainz(data) ==
    /\ mb_ret = UNBOUND
    /\ LET req == MbRequest(mb_args.recording_mbid, mb_args.release_mbid) IN
       IF req = "search" /\ Query(mb_args.artist, mb_args.title) = NONE
       THEN /\ data = MbFailure
            /\ mb_requests' = mb_requests
            /\ mb_ret' = <<[raised |-> TRUE, value |-> Empty]>>
       ELSE /\ data \in MbResponses(req)
            /\ mb_requests' = Append(mb_requests, req)
            /\ mb_ret' = IF data.kind = "error"
                         THEN <<[raised |-> TRUE, value |-> Empty]>>
                         ELSE <<[raised |-> FALSE,
                                 value |-> MusicbrainzMetadata(req, data)]>>
    /\ UNCHANGED mb_args
    /\ UNCHANGED exceptMb

(***************************************************************************)
(* PART V - the pipeline of one file inside a message handler              *)
(***************************************************************************)
\* files being processed by handler tasks that run concurrently
PipeFiles == {"a", "b"}

NextStageEmbedsEarly(st) ==
    CASE st = "read" -> "hints"         [] st = "hints" -> "identify"
      [] st = "identify" -> "catalog"   [] st = "catalog" -> "embed"
      [] st = "embed" -> "cover"        [] st = "cover" -> "secondary"
      [] st = "secondary" -> "tertiary" [] st = "tertiary" -> "returned"
      [] st = "returned" -> "normalize" [] OTHER -> "finished"
\* the statement that follows a stage in lookup() and in the handler loop:
\* steps 1..7 of lookup, its return, then embed(path,
\* _sanitize_for_embed(enriched), ...) whose argument is evaluated first
NextStage(st) ==
    CASE st = "read" -> "hints"         [] st = "hints" -> "identify"
      [] st = "identify" -> "catalog"   [] st = "catalog" -> "cover"
      [] st = "cover" -> "secondary"    [] st = "secondary" -> "tertiary"
      [] st = "tertiary" -> "returned"  [] st = "returned" -> "normalize"
      [] st = "normalize" -> "embed"    [] OTHER -> "finished"

\* stages that await the worker pool or a network request: the task is
\* suspended there and other tasks run
Suspends(st) == st \in {"identify", "catalog", "cover", "secondary", "tertiary"}

\* stages guarded by a condition on the configuration and the record
Conditional(st) == st \in {"identify", "catalog", "cover", "secondary", "tertiary"}

PipeInit ==
    /\ p_pc = [f \in PipeFiles |-> "read"]
    /\ p_wait = [f \in PipeFiles |-> FALSE]
    /\ p_hist = [f \in PipeFiles |-> <<>>]

PipeUnused ==
    /\ p_pc = [f \in PipeFiles |-> "finished"]
    /\ p_wait = [f \in PipeFiles |-> FALSE]
    /\ p_hist = [f \in PipeFiles |-> <<>>]

\* the condition of a stage does not hold (or lookup is disabled): the task
\* goes on with the next statement
SkipStage(f) ==
    /\ ~p_wait[f]
    /\ Conditional(p_pc[f])
    /\ p_pc' = [p_pc EXCEPT ![f] = NextStage(p_pc[f])]
    /\ UNCHANGED <<p_wait, p_hist>>
    /\ UNCHANGED exceptPipe

\* a stage without suspension point runs to its end (returning or, for the
\* adapters and embed, raising into the except clause around them)
RunStage(f) ==
    /\ ~p_wait[f]
    /\ p_pc[f] # "finished"
    /\ ~Suspends(p_pc[f])
    /\ p_hist' = [p_hist EXCEPT ![f] = @ \o << <<p_pc[f], "start">>,
                                               <<p_pc[f], "end">> >>]
    /\ p_pc' = [p_pc EXCEPT ![f] = NextStage(p_pc[f])]
    /\ UNCHANGED p_wait
    /\ UNCHANGED exceptPipe

\* a stage with an await starts: the task is suspended
BeginStage(f) ==
    /\ ~p_wait[f]
    /\ Suspends(p_pc[f])
    /\ p_hist' = [p_hist EXCEPT ![f] = Append(@, <<p_pc[f], "start">>)]
    /\ p_wait' = [p_wait EXCEPT ![f] = TRUE]
    /\ UNCHANGED p_pc
    /\ UNCHANGED exceptPipe

\* the awaited call returns or raises: the task resumes after the stage
EndStage(f) ==
    /\ p_wait[f]
    /\ p_hist' = [p_hist EXCEPT ![f] = Append(@, <<p_pc[f], "end">>)]
    /\ p_wait' = [p_wait EXCEPT ![f] = FALSE]
    /\ p_pc' = [p_pc EXCEPT ![f] = NextStage(p_pc[f])]
    /\ UNCHANGED exceptPipe

PipeNext ==
    \E f \in PipeFiles :
        \/ SkipStage(f)
        \/ RunStage(f)
        \/ BeginStage(f)
        \/ EndStage(f)

(***************************************************************************)
(* PART VI - _sanitize_for_embed                                           *)
(***************************************************************************)
\* Python values of the records that reach the normalizer.  Every value is
\* a record [t, n, s, items]: t is the type, n the number of an int (or the
\* integral value of a float), s the characters of a str, items the
\* elements of a list (records [t, n, s]).
MissingV  == [t |-> "missing", n |-> 0, s |-> <<>>, items |-> <<>>]
NoneV     == [t |-> "none", n |-> 0, s |-> <<>>, items |-> <<>>]
IntV(k)   == [t |-> "int", n |-> k, s |-> <<>>, items |-> <<>>]
FloatV(k) == [t |-> "float", n |-> k, s |-> <<>>, items |-> <<>>]
StrV(cs)  == [t |-> "str", n |-> 0, s |-> cs, items |-> <<>>]
ListV(xs) == [t |-> "list", n |-> 0, s |-> <<>>,
              items |-> [i \in DOMAIN xs |-> [t |-> xs[i].t, n |-> xs[i].n,
                                              s |-> xs[i].s]]]
\* the exception an int() call raises, as a value of the model
RaiseV    == [t |-> "raise", n |-> 0, s |-> <<>>, items |-> <<>>]
\* an element of a list as a value
Elem(x)   == [t |-> x.t, n |-> x.n, s |-> x.s, items |-> <<>>]

\* bool(v)
TruthyV(v) ==
    CASE v.t \in {"missing", "none"} -> FALSE
      [] v.t \in {"int", "float"} -> v.n # 0
      [] v.t = "str" -> v.s # <<>>
      [] v.t = "list" -> v.items # <<>>
      [] OTHER -> TRUE

\* m.get(k)
GetV(m, k) == IF m[k] = MissingV THEN NoneV ELSE m[k]

DigitVal ==
    "0" :> 0 @@ "1" :> 1 @@ "2" :> 2 @@ "3" :> 3 @@ "4" :> 4 @@
    "5" :> 5 @@ "6" :> 6 @@ "7" :> 7 @@ "8" :> 8 @@ "9" :> 9
IsDigit(c) == c \in DOMAIN DigitVal

RECURSIVE SkipSpaces(_)
\* \s* at the start of a string
SkipSpaces(cs) ==
    IF cs # <<>> /\ Head(cs) = " " THEN SkipSpaces(Tail(cs)) ELSE cs

RECURSIVE DigitRun(_)
\* \d* at the start of a string
DigitRun(cs) ==
    IF cs # <<>> /\ IsDigit(Head(cs)) THEN <<Head(cs)>> \o DigitRun(Tail(cs))
    ELSE <<>>

RECURSIVE ToInt(_, _)
\* int() of a run of digits
ToInt(ds, acc) ==
    IF ds = <<>> THEN acc ELSE ToInt(Tail(ds), 10 * acc + DigitVal[Head(ds)])

RECURSIVE DigitsOf(_)
\* str() of a natural number
DigitsOf(k) ==
    IF k < 10 THEN <<CHOOSE c \in DOMAIN DigitVal : DigitVal[c] = k>>
    ELSE DigitsOf(k \div 10) \o DigitsOf(k % 10)

NumMatchWhole(cs) ==
    IF DigitRun(SkipSpaces(cs)) = SkipSpaces(cs) THEN SkipSpaces(cs) ELSE <<>>
\* _NUM_RE.match(val).group(1) for ^\s*(\d+), <<>> when there is no match
NumMatch(cs) == DigitRun(SkipSpaces(cs))

\* int(str): optional sign, then digits only
IntOfStr(cs) ==
    LET t    == SkipSpaces(cs)
        neg  == t # <<>> /\ Head(t) = "-"
        body == IF t # <<>> /\ Head(t) \in {"-", "+"} THEN Tail(t) ELSE t
    IN  IF body # <<>> /\ DigitRun(body) = body
        THEN IntV(IF neg THEN 0 - ToInt(body, 0) ELSE ToInt(body, 0))
        ELSE RaiseV

\* int(val)
IntCall(v) ==
    CASE v.t = "int" -> v
      [] v.t = "float" -> IntV(v.n)
      [] v.t = "str" -> IntOfStr(v.s)
      [] OTHER -> RaiseV

\* try: return int(val) / except Exception: return None
TryInt(v) == IF IntCall(v) = RaiseV THEN NoneV ELSE IntCall(v)

\* _first_int on a value that is no list
FirstIntScalar(v) ==
    CASE v.t = "none" -> NoneV
      [] v.t = "int" -> v
      [] v.t = "str" /\ NumMatch(v.s) # <<>> -> IntV(ToInt(NumMatch(v.s), 0))
      [] OTHER -> TryInt(v)

\* _first_int: a non-empty list stands for its first element
FirstInt(v) ==
    IF v.t = "list" /\ v.items # <<>> THEN FirstIntScalar(Elem(v.items[1]))
    ELSE FirstIntScalar(v)

\* str(val)
StrOf(v) ==
    CASE v.t = "str" -> v.s
      [] v.t = "int" -> DigitsOf(v.n)
      [] v.t = "float" -> DigitsOf(v.n) \o <<".", "0">>
      [] OTHER -> <<"?">>

\* _year_from_date on a value that is no list: _DATE_RE is ^(\d{4})
YearFromDateScalar(v) ==
    IF ~TruthyV(v) THEN NoneV
    ELSE IF Len(StrOf(v)) >= 4 /\ Len(DigitRun(StrOf(v))) >= 4
         THEN StrV(SubSeq(StrOf(v), 1, 4))
         ELSE NoneV

\* _year_from_date
YearFromDate(v) ==
    IF v.t = "list" /\ v.items # <<>> THEN YearFromDateScalar(Elem(v.items[1]))
    ELSE YearFromDateScalar(v)

\* the keys of the records handed to the normalizer
NormKeys ==
    {"title", "artist", "album_artist", "track_number", "disc_number",
     "release_date", "date", "cover_url", "cover_bytes", "description", "tags"}

\* for drop_key in ("cover_url", "url", "tags", "description", "popularity")
DropKeys == {"cover_url", "url", "tags", "description", "popularity"}

ReconcileSwaps(m) ==
    [m EXCEPT !["artist"] = m["album_artist"], !["album_artist"] = m["artist"]]
\* artist and album_artist: an empty one takes the value of the other
Reconcile(m) ==
    LET m1 == IF ~TruthyV(GetV(m, "artist")) /\ TruthyV(GetV(m, "album_artist"))
              THEN [m EXCEPT !["artist"] = m["album_artist"]] ELSE m
    IN  IF ~TruthyV(GetV(m1, "album_artist")) /\ TruthyV(GetV(m1, "artist"))
        THEN [m1 EXCEPT !["album_artist"] = m1["artist"]] ELSE m1

\* a number key: the coerced int, or the key popped
Coerce(m, k) ==
    IF FirstInt(GetV(m, k)) # NoneV THEN [m EXCEPT ![k] = FirstInt(GetV(m, k))]
    ELSE [m EXCEPT ![k] = MissingV]

\* m2.get("release_date") or m2.get("date")
DateSource(m) ==
    IF TruthyV(GetV(m, "release_date")) THEN GetV(m, "release_date")
    ELSE GetV(m, "date")

\* yr = _year_from_date(...); if yr: m2["date"] = yr
DeriveYear(m) ==
    IF TruthyV(YearFromDate(DateSource(m)))
    THEN [m EXCEPT !["date"] = YearFromDate(DateSource(m))] ELSE m

\* if drop_key in m2 and m2[drop_key] is None: del m2[drop_key]
DropNulls(m) ==
    [k \in DOMAIN m |-> IF k \in DropKeys /\ m[k] = NoneV THEN MissingV ELSE m[k]]

\* _sanitize_for_embed(meta): [raised, value]; an exception of int() that
\* left _first_int would leave _sanitize_for_embed as well
Sanitize(m) ==
    [raised |-> \/ FirstInt(GetV(Reconcile(m), "track_number")) = RaiseV
                \/ FirstInt(GetV(Reconcile(m), "disc_number")) = RaiseV,
     value  |-> DropNulls(DeriveYear(Coerce(Coerce(Reconcile(m), "track_number"),
                                            "disc_number")))]

\* strings of the records, as sequences of characters
S5         == <<"5">>
S5of12     == <<"5", "/", "1", "2">>
SUnknown   == <<"u", "n", "k", "n", "o", "w", "n">>
SDate      == <<"2", "0", "0", "1", "-", "0", "5", "-", "0", "1">>
S1999      == <<"1", "9", "9", "9">>
SWord      == <<"x">>

\* the record every input is a variation of
NormDefault ==
    [k \in NormKeys |->
        CASE k = "title" -> StrV(SWord) [] k = "artist" -> StrV(SWord)
          [] OTHER -> MissingV]

\* inputs in which the fields vary together over short menus
NormProduct ==
    { [NormDefault EXCEPT !["title"] = v[1], !["artist"] = v[2],
                          !["album_artist"] = v[3], !["track_number"] = v[4],
                          !["disc_number"] = v[5], !["release_date"] = v[6],
                          !["date"] = v[7], !["cover_url"] = v[8],
                          !["cover_bytes"] = v[9], !["description"] = v[10]] :
      v \in {NoneV, StrV(SWord)}
            \X {MissingV, NoneV, StrV(<<"a">>)}
            \X {MissingV, StrV(<<"b">>)}
            \X {MissingV, StrV(S5of12), ListV(<<StrV(S5)>>), StrV(SUnknown)}
            \X {MissingV, StrV(SUnknown)}
            \X {MissingV, NoneV, StrV(SDate), StrV(SUnknown)}
            \X {MissingV, StrV(SDate), StrV(SUnknown)}
            \X {MissingV, NoneV, StrV(SWord)}
            \X {MissingV, StrV(SWord)}
            \X {NoneV, StrV(SWord)} }

\* further values of single fields
NormSingles ==
    { [NormDefault EXCEPT ![k] = v] :
        k \in {"track_number", "disc_number"},
        v \in {NoneV, IntV(5), IntV(0), FloatV(5), StrV(S5), StrV(<<" ", "7">>),
               StrV(<<"0", "5">>), StrV(<<"-", "5">>), StrV(<<>>), ListV(<<>>),
               ListV(<<IntV(5)>>), ListV(<<StrV(SUnknown)>>)} }
    \cup
    { [NormDefault EXCEPT ![k] = v] :
        k \in {"release_date", "date"},
        v \in {IntV(2001), IntV(0), StrV(S1999), StrV(<<"9", "9", "-", "0", "5">>),
               StrV(<<"2", "0", "0", "1", "0", "5">>), StrV(<<>>),
               ListV(<<StrV(SDate)>>), ListV(<<StrV(SUnknown)>>), ListV(<<>>)} }
    \cup
    { [NormDefault EXCEPT !["tags"] = v] :
        v \in {NoneV, ListV(<<StrV(SWord)>>)} }

NormInit ==
    /\ n_in \in NormProduct \cup NormSingles
    /\ n_once = UNBOUND
    /\ n_twice = UNBOUND

NormUnused ==
    /\ n_in = NormDefault
    /\ n_once = UNBOUND
    /\ n_twice = UNBOUND

\* the call _sanitize_for_embed(meta)
Normalize ==
    /\ n_once = UNBOUND
    /\ n_once' = <<Sanitize(n_in)>>
    /\ UNCHANGED <<n_in, n_twice>>
    /\ UNCHANGED exceptNorm

\* _sanitize_for_embed applied to the record the first call returned
NormalizeAgain ==
    /\ n_once # UNBOUND
    /\ ~n_once[1].raised
    /\ n_twice = UNBOUND
    /\ n_twice' = <<Sanitize(n_once[1].value)>>
    /\ UNCHANGED <<n_in, n_once>>
    /\ UNCHANGED exceptNorm

NormNext == Normalize \/ NormalizeAgain

(***************************************************************************)
(* PART VII - MetadataEmbedder.embed                                       *)
(***************************************************************************)
\* filepath.suffix of the files handed to embed
Suffixes == {".mp3", ".MP3", ".m4a", ".mp4", ".flac", ".ogg", ""}

\* str.lower() on the suffixes
Lower(sfx) == IF sfx = ".MP3" THEN ".mp3" ELSE sfx

ContainerDefaultsToMp3(sfx) ==
    IF Lower(sfx) \in {".m4a", ".mp4"} THEN "mp4" ELSE "mp3"
\* the branch embed() takes: if suffix == ".mp3" / elif suffix in (".m4a",
\* ".mp4") / else
Container(sfx) ==
    IF Lower(sfx) = ".mp3" THEN "mp3"
    ELSE IF Lower(sfx) \in {".m4a", ".mp4"} THEN "mp4"
    ELSE "unsupported"

\* tag fields of the model: two that are always written and one that is
\* written when the record holds a value
TagKeys == {"title", "artist", "genre"}

\* files on disk: valid says whether the bytes are a structurally valid
\* container of the kind the suffix names
DiskFiles ==
    [valid : BOOLEAN, tags : [TagKeys -> {MISSING, "old"}], cover : {MISSING, "old"}]

\* records handed to embed
EmbedMetas ==
    [title : {MISSING, NONE, "new"}, artist : {MISSING, "new"},
     genre : {MISSING, "", "new"}]

\* outcomes of the file operations: all succeed, the open fails, the save
\* fails leaving the file as it was, the save fails halfway
IoOutcomes == {"ok", "open_fails", "save_fails_clean", "save_fails_partial"}

NoResult == [status |-> "none", msg |-> ""]
Returned == [status |-> "returned", msg |-> ""]
Raised(msg) == [status |-> "raised", msg |-> msg]

\* the tags _embed_mp3 holds before audio.save(): TIT2 / TPE1 from
\* meta.get(k, ""), TCON if meta.get("genre"), APIC if cover_bytes
Mp3Tags(f, m, cover) ==
    [f EXCEPT !.tags = [k \in TagKeys |->
                          IF k \in {"title", "artist"}
                          THEN (IF m[k] = MISSING THEN "" ELSE m[k])
                          ELSE IF Truthy(m[k]) THEN m[k] ELSE f.tags[k]],
              !.cover = IF Truthy(cover) THEN cover ELSE f.cover]

\* the tags _embed_m4a holds before mp4.save(): nam / ART from
\* meta.get(k, "") or "", gen if meta.get("genre"), covr if cover_bytes
M4aTags(f, m, cover) ==
    [f EXCEPT !.tags = [k \in TagKeys |->
                          IF k \in {"title", "artist"}
                          THEN (IF Truthy(m[k]) THEN m[k] ELSE "")
                          ELSE IF Truthy(m[k]) THEN m[k] ELSE f.tags[k]],
              !.cover = IF Truthy(cover) THEN cover ELSE f.cover]

\* a text frame built from None is rejected by the frame's validation
\* (inside the try block of _embed_mp3)
Mp3Rejects(m) == \E k \in {"title", "artist"} : m[k] = NONE

EmbedInit ==
    /\ e_suffix \in Suffixes
    /\ e_file \in DiskFiles
    /\ e_orig = e_file
    /\ e_meta \in EmbedMetas
    /\ e_cover \in {NONE, "bytes"}
    /\ e_opened = FALSE
    /\ e_result = NoResult

EmbedUnused ==
    /\ e_suffix = ""
    /\ e_file = [valid |-> FALSE, tags |-> [k \in TagKeys |-> MISSING],
                 cover |-> MISSING]
    /\ e_orig = e_file
    /\ e_meta = [title |-> MISSING, artist |-> MISSING, genre |-> MISSING]
    /\ e_cover = NONE
    /\ e_opened = FALSE
    /\ e_result = [status |-> "unused", msg |-> ""]

\* the call embed(filepath, meta, cover_bytes), the file system behaving
\* as `io` says
Embed(io) ==
    /\ e_result = NoResult
    /\ IF Container(e_suffix) = "unsupported"
       THEN /\ io = "ok"
            /\ e_result' = Raised("unsupported")
            /\ UNCHANGED <<e_file, e_opened>>
       ELSE /\ e_opened' = TRUE
            /\ IF ~e_file.valid \/ io = "open_fails"
               THEN /\ io \in {"ok", "open_fails"}
                    /\ e_result' = Raised("open")
                    /\ e_file' = e_file
               ELSE IF Container(e_suffix) = "mp3" /\ Mp3Rejects(e_meta)
               THEN /\ io = "ok"
                    /\ e_result' = Raised("embed")
                    /\ e_file' = e_file
               ELSE LET new == IF Container(e_suffix) = "mp3"
                               THEN Mp3Tags(e_file, e_meta, e_cover)
                               ELSE M4aTags(e_file, e_meta, e_cover)
                    IN  CASE io = "ok" ->
                               /\ e_result' = Returned
                               /\ e_file' = new
                          [] io = "save_fails_clean" ->
                               /\ e_result' = Raised("embed")
                               /\ e_file' = e_file
                          [] io = "save_fails_partial" ->
                               /\ e_result' = Raised("embed")
                               /\ e_file' = [new EXCEPT !.valid = FALSE]
                          [] OTHER -> FALSE
    /\ UNCHANGED <<e_suffix, e_orig, e_meta, e_cover>>
    /\ UNCHANGED exceptEmbed

EmbedNext == \E io \in IoOutcomes : Embed(io)

(***************************************************************************)
(* PART VIII - FileDownloader.download_message                             *)
(***************************************************************************)
\* longest file name of an upload
MaxNameLen == 3

\* file names: strings over a letter, the dot, an upper-case letter and the
\* question mark
NameChars == {"s", ".", "M", "?"}
FileNames == UNION { [1..n -> NameChars] : n \in 0..MaxNameLen }

\* the extensions ".m" and ".s", and an entry written without its dot
ExtM == <<".", "m">>
ExtS == <<".", "s">>

\* the uploads: msg.audio / msg.document / neither; file_name (<<>> for
\* None, <<name>> otherwise); mime_type; and the allowed_exts of the
\* configuration
FileInputs ==
    [payload : {"audio", "document", "none"},
     filename : {<<>>} \cup { <<n>> : n \in FileNames },
     mime : {NONE, "audio/m", "application/x"},
     allowed : { {}, {ExtM}, {ExtM, ExtS}, {<<"m">>} }]

\* str.lower()
LowerS(s) == [i \in 1..Len(s) |-> IF s[i] = "M" THEN "m" ELSE s[i]]

\* c in s
HasChar(s, c) == \E i \in 1..Len(s) : s[i] = c

\* s.rsplit(c, 1)[1] for s that holds c
AfterLast(s, c) ==
    LET i == CHOOSE j \in 1..Len(s) :
                 s[j] = c /\ \A k \in (j+1)..Len(s) : s[k] # c
    IN  SubSeq(s, i + 1, Len(s))

\* s.split(c, 1)[0] for s that holds c
BeforeFirst(s, c) ==
    LET i == CHOOSE j \in 1..Len(s) :
                 s[j] = c /\ \A k \in 1..(j-1) : s[k] # c
    IN  SubSeq(s, 1, i - 1)

\* mimetypes.guess_extension(mime_type) or ""
GuessExtension(mime) == IF mime = "audio/m" THEN ExtM ELSE <<>>

\* the name bound to filename is truthy
NameGiven(fn) == fn # <<>> /\ fn[1] # <<>>

\* "Infer extension": from the file name, else from the mime type; lower
\* case; cut at the first question mark
InferExt(fn, mime) ==
    LET raw == IF NameGiven(fn) /\ HasChar(fn[1], ".")
               THEN <<".">> \o AfterLast(fn[1], ".")
               ELSE IF mime # NONE THEN GuessExtension(mime) ELSE <<>>
        low == LowerS(raw)
    IN  IF HasChar(low, "?") THEN BeforeFirst(low, "?") ELSE low

\* sanitize_filename: the bad characters become "_"; an empty result
\* becomes "untitled"
SanitizeFilename(name) ==
    LET r == [i \in 1..Len(name) |-> IF name[i] = "?" THEN "_" ELSE name[i]]
    IN  IF r = <<>> THEN <<"untitled">> ELSE r

\* s.endswith(t)
EndsWith(s, t) ==
    Len(t) <= Len(s) /\ SubSeq(s, Len(s) - Len(t) + 1, Len(s)) = t

\* safe_name: the sanitized file name (or file_unique_id + ext), with the
\* extension appended unless the name ends with it
SafeName(fn, ext) ==
    LET stem == SanitizeFilename(IF NameGiven(fn) THEN fn[1]
                                 ELSE <<"u">> \o ext)
    IN  IF ~EndsWith(LowerS(stem), ext) /\ ext # <<>>
        THEN stem \o ext ELSE stem

\* what a call produced: the two lists, and whether dest_dir was created
\* and bot.download was called
FileResult(succ, fail, mk, dl) ==
    <<[successes |-> succ, failures |-> fail, mkdir |-> mk, downloaded |-> dl]>>

FileInit ==
    /\ fd_in \in FileInputs
    /\ fd_out = UNBOUND

FileUnused ==
    /\ fd_in = [payload |-> "none", filename |-> <<>>, mime |-> NONE,
                allowed |-> {}]
    /\ fd_out = UNBOUND

\* the call download_message(bot, msg); bot.download succeeds iff dl_ok
DownloadMessage(dl_ok) ==
    /\ fd_out = UNBOUND
    /\ LET ext  == InferExt(fd_in.filename, fd_in.mime)
           safe == SafeName(fd_in.filename, ext)
       IN  IF fd_in.payload = "none"
           THEN /\ dl_ok
                /\ fd_out' = FileResult(<<>>, <<"no_payload">>, FALSE, FALSE)
           ELSE IF fd_in.allowed # {} /\ ext # <<>> /\ ext \notin fd_in.allowed
           THEN /\ dl_ok
                /\ fd_out' = FileResult(<<>>, <<"not_allowed">>, FALSE, FALSE)
           ELSE IF dl_ok
           THEN fd_out' = FileResult(<<safe>>, <<>>, TRUE, TRUE)
           ELSE fd_out' = FileResult(<<>>, <<"download_failed">>, TRUE, TRUE)
    /\ UNCHANGED fd_in
    /\ UNCHANGED exceptFile

FileNext == \E dl_ok \in BOOLEAN : DownloadMessage(dl_ok)

(***************************************************************************)
(* PART IX - handle_text_message / handle_audio_message /                  *)
(*           handle_document_message for concurrent requests               *)
(***************************************************************************)
\* the updates being handled, each by its own task
Reqs == {"r1", "r2"}

\* senders, and self.allowed = set(cfg.allowed_users)
Users == {"alice", "bob", "mallory"}
Allowed == {"alice", "bob"}

\* what a message holds: text that is no link, a link to a track, a link to
\* a playlist or album, an uploaded audio or document
Links == {"none", "track", "list", "upload"}

\* the file names a fetch produces under the user's root: they follow from
\* the link (output template) or from the upload's file name
Items(link) ==
    CASE link = "track" -> <<"p">>
      [] link = "list" -> <<"p", "q">>
      [] link = "upload" -> <<"p">>
      [] OTHER -> <<>>

\* _user_root(msg.from_user) / name
PathOf(user, name) == <<user, name>>

AuthorizedAnyone(user) == TRUE
\* _authorized: user_id in self.allowed
Authorized(user) == user \in Allowed

WarnListShared(r) == "r1"
\* the list the warnings of request r are collected in: self.warnings of
\* the downloader constructed inside the handler call
WarnList(r) == r

\* the elements of a sequence
Range(s) == { s[i] : i \in 1..Len(s) }

\* no handler is inside a synchronous call: the event loop can run a task
LoopFree == \A r \in Reqs : rq_pc[r] # "embedding"

ReqInit ==
    /\ rq_in \in [Reqs -> [user : Users, link : Links]]
    /\ rq_pc = [r \in Reqs |-> "start"]
    /\ rq_todo = [r \in Reqs |-> <<>>]
    /\ rq_succ = [r \in Reqs |-> <<>>]
    /\ rq_fail = [r \in Reqs |-> <<>>]
    /\ rq_lists = [r \in Reqs |-> <<>>]
    /\ rq_writing = [r \in Reqs |-> {}]
    /\ rq_ops = [r \in Reqs |-> {}]
    /\ rq_own = [r \in Reqs |-> <<>>]
    /\ rq_err = [r \in Reqs |-> {}]
    /\ rq_out = [r \in Reqs |-> UNBOUND]

ReqUnused ==
    /\ rq_in = [r \in Reqs |-> [user |-> "mallory", link |-> "none"]]
    /\ rq_pc = [r \in Reqs |-> "unused"]
    /\ rq_todo = [r \in Reqs |-> <<>>]
    /\ rq_succ = [r \in Reqs |-> <<>>]
    /\ rq_fail = [r \in Reqs |-> <<>>]
    /\ rq_lists = [r \in Reqs |-> <<>>]
    /\ rq_writing = [r \in Reqs |-> {}]
    /\ rq_ops = [r \in Reqs |-> {}]
    /\ rq_own = [r \in Reqs |-> <<>>]
    /\ rq_err = [r \in Reqs |-> {}]
    /\ rq_out = [r \in Reqs |-> UNBOUND]

\* the reply that ends a handler call
Reply(kind, succ, fail, warns) ==
    <<[kind |-> kind, successes |-> succ, failures |-> fail, warnings |-> warns]>>

\* if not await self._authorized(msg): return
Authorize(r) ==
    /\ LoopFree
    /\ rq_pc[r] = "start"
    /\ IF Authorized(rq_in[r].user)
       THEN /\ rq_pc' = [rq_pc EXCEPT ![r] = "detect"]
            /\ UNCHANGED <<rq_ops, rq_out>>
       ELSE /\ rq_pc' = [rq_pc EXCEPT ![r] = "done"]
            /\ rq_ops' = [rq_ops EXCEPT ![r] = @ \cup {"reply"}]
            /\ rq_out' = [rq_out EXCEPT ![r] = Reply("rejected", <<>>, <<>>, <<>>)]
    /\ UNCHANGED <<rq_in, rq_todo, rq_succ, rq_fail, rq_lists, rq_writing,
                   rq_own, rq_err>>
    /\ UNCHANGED exceptReq

\* the detector finds no platform: reply and return; otherwise the reply
\* announcing the download (or the received file) is awaited
Detect(r) ==
    /\ LoopFree
    /\ rq_pc[r] = "detect"
    /\ rq_ops' = [rq_ops EXCEPT ![r] = @ \cup {"reply"}]
    /\ IF rq_in[r].link = "none"
       THEN /\ rq_pc' = [rq_pc EXCEPT ![r] = "done"]
            /\ rq_out' = [rq_out EXCEPT ![r] = Reply("no_link", <<>>, <<>>, <<>>)]
       ELSE /\ rq_pc' = [rq_pc EXCEPT ![r] = "fetch"]
            /\ UNCHANGED rq_out
    /\ UNCHANGED <<rq_in, rq_todo, rq_succ, rq_fail, rq_lists, rq_writing,
                   rq_own, rq_err>>
    /\ UNCHANGED exceptReq

\* _user_root creates the directory, the downloaders are constructed,
\* download() empties self.warnings and hands the fetch to the worker pool
\* (for an upload: download_message awaits bot.download); the fetch writes
\* the files of the link under the user's root
StartFetch(r) ==
    /\ LoopFree
    /\ rq_pc[r] = "fetch"
    /\ rq_ops' = [rq_ops EXCEPT ![r] = @ \cup {"mkdir", "download"}]
    /\ rq_lists' = [rq_lists EXCEPT ![WarnList(r)] = <<>>]
    /\ rq_writing' = [rq_writing EXCEPT ![r] =
                        { PathOf(rq_in[r].user, n) : n \in Range(Items(rq_in[r].link)) }]
    /\ rq_pc' = [rq_pc EXCEPT ![r] = "fetching"]
    /\ UNCHANGED <<rq_in, rq_todo, rq_succ, rq_fail, rq_own, rq_err, rq_out>>
    /\ UNCHANGED exceptReq

\* the fetch ends and the handler resumes with (successes, failures,
\* warnings): the items of the link, or one failure; warned says whether the
\* fetch recorded a warning
EndFetch(r, ok, warned) ==
    /\ LoopFree
    /\ rq_pc[r] = "fetching"
    /\ LET w == IF warned THEN << <<r, "fetch", "">> >> ELSE <<>>
       IN  /\ rq_lists' = [rq_lists EXCEPT ![WarnList(r)] = @ \o w]
           /\ rq_own' = [rq_own EXCEPT ![r] = @ \o w]
    /\ rq_writing' = [rq_writing EXCEPT ![r] = {}]
    /\ rq_todo' = [rq_todo EXCEPT ![r] = IF ok THEN Items(rq_in[r].link) ELSE <<>>]
    /\ rq_fail' = [rq_fail EXCEPT ![r] = IF ok THEN <<>> ELSE <<"fetch">>]
    /\ rq_pc' = [rq_pc EXCEPT ![r] = IF ok THEN "lookup" ELSE "summary"]
    /\ UNCHANGED <<rq_in, rq_succ, rq_ops, rq_err, rq_out>>
    /\ UNCHANGED exceptReq

\* enriched, w = await self.tag_lookup.lookup(path, hints=meta): the tags
\* are read, then the task waits for the services
BeginLookup(r) ==
    /\ LoopFree
    /\ rq_pc[r] = "lookup"
    /\ rq_ops' = [rq_ops EXCEPT ![r] = @ \cup {"lookup"}]
    /\ rq_pc' = [rq_pc EXCEPT ![r] = "lookup_wait"]
    /\ UNCHANGED <<rq_in, rq_todo, rq_succ, rq_fail, rq_lists, rq_writing,
                   rq_own, rq_err, rq_out>>
    /\ UNCHANGED exceptReq

\* lookup returns (it does not raise); warnings.extend(...)
EndLookup(r, warned) ==
    /\ LoopFree
    /\ rq_pc[r] = "lookup_wait"
    /\ LET w == IF warned THEN << <<r, "lookup", Head(rq_todo[r])>> >> ELSE <<>>
       IN  /\ rq_lists' = [rq_lists EXCEPT ![WarnList(r)] = @ \o w]
           /\ rq_own' = [rq_own EXCEPT ![r] = @ \o w]
    /\ rq_pc' = [rq_pc EXCEPT ![r] = "embed"]
    /\ UNCHANGED <<rq_in, rq_todo, rq_succ, rq_fail, rq_writing, rq_ops,
                   rq_err, rq_out>>
    /\ UNCHANGED exceptReq

\* self.embedder.embed(path, ...) is called on the loop: a synchronous call
\* that rewrites the file
BeginEmbed(r) ==
    /\ LoopFree
    /\ rq_pc[r] = "embed"
    /\ rq_ops' = [rq_ops EXCEPT ![r] = @ \cup {"embed"}]
    /\ rq_writing' = [rq_writing EXCEPT ![r] =
                        {PathOf(rq_in[r].user, Head(rq_todo[r]))}]
    /\ rq_pc' = [rq_pc EXCEPT ![r] = "embedding"]
    /\ UNCHANGED <<rq_in, rq_todo, rq_succ, rq_fail, rq_lists, rq_own,
                   rq_err, rq_out>>
    /\ UNCHANGED exceptReq

\* embed returns, or raises into `except Exception` which appends the
\* warning "Metadata embed error"; either way the item is appended to
\* new_successes and the loop goes on with the next item
EndEmbed(r, raises) ==
    /\ rq_pc[r] = "embedding"
    /\ LET item == Head(rq_todo[r])
           w == IF raises THEN << <<r, "embed", item>> >> ELSE <<>>
       IN  /\ rq_lists' = [rq_lists EXCEPT ![WarnList(r)] = @ \o w]
           /\ rq_own' = [rq_own EXCEPT ![r] = @ \o w]
           /\ rq_err' = [rq_err EXCEPT ![r] = IF raises THEN @ \cup {item} ELSE @]
           /\ rq_succ' = [rq_succ EXCEPT ![r] = Append(@, item)]
    /\ rq_writing' = [rq_writing EXCEPT ![r] = {}]
    /\ rq_todo' = [rq_todo EXCEPT ![r] = Tail(@)]
    /\ rq_pc' = [rq_pc EXCEPT ![r] = IF Len(rq_todo[r]) > 1 THEN "lookup"
                                     ELSE "summary"]
    /\ UNCHANGED <<rq_in, rq_fail, rq_ops, rq_out>>
    /\ UNCHANGED exceptReq

\* build_summary_md(successes, warnings, failures) is sent
Summary(r) ==
    /\ LoopFree
    /\ rq_pc[r] = "summary"
    /\ rq_ops' = [rq_ops EXCEPT ![r] = @ \cup {"reply"}]
    /\ rq_out' = [rq_out EXCEPT ![r] =
                    Reply("summary", rq_succ[r], rq_fail[r], rq_lists[WarnList(r)])]
    /\ rq_pc' = [rq_pc EXCEPT ![r] = "done"]
    /\ UNCHANGED <<rq_in, rq_todo, rq_succ, rq_fail, rq_lists, rq_writing,
                   rq_own, rq_err>>
    /\ UNCHANGED exceptReq

ReqNext ==
    \E r \in Reqs :
        \/ Authorize(r)
        \/ Detect(r)
        \/ StartFetch(r)
        \/ \E ok \in BOOLEAN, warned \in BOOLEAN : EndFetch(r, ok, warned)
        \/ BeginLookup(r)
        \/ \E warned \in BOOLEAN : EndLookup(r, warned)
        \/ BeginEmbed(r)
        \/ \E raises \in BOOLEAN : EndEmbed(r, raises)
        \/ Summary(r)

(***************************************************************************)
(* PART X - the date of a file: _read_existing_tags, lookup steps 2, 4, 7, *)
(*          _sanitize_for_embed, embed                                     *)
(***************************************************************************)
\* the two keys a date travels under
DateKeys == {"date", "release_date"}

\* the date tag of the file, the release_date of the hints, and the flags
\* enable and prefer_existing of the configuration
DateInputs ==
    [tag : {MISSING, "2001"}, hint : {MISSING, NONE, "1987-01-01"},
     enable : BOOLEAN, prefer_existing : BOOLEAN]

\* the release_date a catalog answer / a Discogs answer carries, MISSING
\* when the service is not asked, fails or has none
CatalogDates == {MISSING, "1999-05-01"}
DiscogsDates == {MISSING, NONE, "1975"}

\* _year_from_date on the dates above: the leading four digits
DateYear(v) ==
    CASE v = "2001" -> "2001"
      [] v = "1987-01-01" -> "1987"
      [] v = "1999-05-01" -> "1999"
      [] v = "1975" -> "1975"
      [] OTHER -> NONE

\* _read_existing_tags: the dict holds "date": get("date"), None when the
\* file has no such tag, and no key release_date
ExistingTags(tag) ==
    [k \in DateKeys |-> IF k = "date"
                        THEN (IF tag = MISSING THEN NONE ELSE tag)
                        ELSE MISSING]

\* step 2 of lookup for the key release_date of the hints
HintsMerged(m, hint, prefer) ==
    IF Truthy(hint) /\ (~prefer \/ ~Truthy(m["release_date"]))
    THEN [m EXCEPT !["release_date"] = hint]
    ELSE m

\* a fragment that carries a release date
DateFragment(v) == [k \in DateKeys |-> IF k = "release_date" THEN v ELSE MISSING]

DateInit ==
    /\ d_in \in DateInputs
    /\ d_pc = "lookup"
    /\ d_meta = [k \in DateKeys |-> MISSING]
    /\ d_file = d_in.tag

DateUnused ==
    /\ d_in = [tag |-> MISSING, hint |-> MISSING, enable |-> FALSE,
               prefer_existing |-> FALSE]
    /\ d_pc = "unused"
    /\ d_meta = [k \in DateKeys |-> MISSING]
    /\ d_file = MISSING

\* lookup(path, hints): tags, hints, then (if enabled) the catalog answer
\* and the Discogs answer merged with _merge
DateLookup(mb, dc) ==
    /\ d_pc = "lookup"
    /\ LET m2 == HintsMerged(ExistingTags(d_file), d_in.hint, d_in.prefer_existing)
       IN  IF d_in.enable
           THEN d_meta' = Merge(Merge(m2, DateFragment(mb)), DateFragment(dc))
           ELSE /\ mb = MISSING /\ dc = MISSING
                /\ d_meta' = m2
    /\ d_pc' = "normalize"
    /\ UNCHANGED <<d_in, d_file>>
    /\ UNCHANGED exceptDate

\* _sanitize_for_embed: yr = _year_from_date(release_date or date);
\* if yr: m2["date"] = yr
DateNormalize ==
    /\ d_pc = "normalize"
    /\ LET src == IF Truthy(d_meta["release_date"]) THEN d_meta["release_date"]
                  ELSE d_meta["date"]
           yr  == DateYear(src)
       IN  d_meta' = IF Truthy(yr) THEN [d_meta EXCEPT !["date"] = yr] ELSE d_meta
    /\ d_pc' = "embed"
    /\ UNCHANGED <<d_in, d_file>>
    /\ UNCHANGED exceptDate

\* embed: if meta.get("release_date"): the date tag is set to
\* str(meta["release_date"])
DateEmbed ==
    /\ d_pc = "embed"
    /\ d_file' = IF Truthy(d_meta["release_date"]) THEN d_meta["release_date"]
                 ELSE d_file
    /\ d_pc' = "done"
    /\ UNCHANGED <<d_in, d_meta>>
    /\ UNCHANGED exceptDate

DateNext ==
    \/ \E mb \in CatalogDates, dc \in DiscogsDates : DateLookup(mb, dc)
    \/ DateNormalize
    \/ DateEmbed

(***************************************************************************)
(* PART XI - SpotifyDownloader._sync_download and _download_track          *)
(***************************************************************************)
\* the last point in time of the model
MaxTime == 4

\* tracks, by disc and track number; the file spotdl writes for a track is
\* identified with the track it contains
Tracks == { [disc |-> 1, num |-> 1], [disc |-> 1, num |-> 2], [disc |-> 2, num |-> 1] }

\* sequences of distinct tracks
TrackLists ==
    UNION { { s \in [1..n -> Tracks] : \A i, j \in 1..n : i # j => s[i] # s[j] } :
            n \in 1..Cardinality(Tracks) }

\* the elements of S in increasing order of key
Sorted(S, key(_)) ==
    CHOOSE s \in [1..Cardinality(S) -> S] :
        \A i, j \in 1..Cardinality(S) : i < j => key(s[i]) < key(s[j])

\* tracks.sort(key=lambda t: (t.get("disc_number", 1), t.get("track_number", 0)))
DiscTrackKey(t) == 10 * t.disc + t.num

\* the order of the file names "{track-number} - {artists} - {title}.m4a"
\* under sorted(): by track number first
FileNameKey(t) == 10 * t.num + t.disc

\* the tracks of the link in the order the worker holds them: an album's are
\* sorted by disc and track number, a playlist's keep the order of the API
ListedTracks(in) ==
    IF in.link_type = "album"
    THEN Sorted({ in.items[i] : i \in 1..Len(in.items) }, DiscTrackKey)
    ELSE in.items

\* the files present in a directory
Present(dir) == { f \in Tracks : dir[f] > 0 }

\* sorted(out_dir.glob("*.m4a"))
ByName(dir) == Sorted(Present(dir), FileNameKey)

\* sorted(self.download_dir.glob("*.m4a"), key=lambda p: p.stat().st_mtime)
ByMtime(dir) == LET Mtime(f) == dir[f] IN Sorted(Present(dir), Mtime)

\* zip(tracks, m4a_files) with meta = _track_meta_from_spotify_obj(data)
Zip(tracks, files) ==
    [i \in 1..(IF Len(tracks) < Len(files) THEN Len(tracks) ELSE Len(files)) |->
        [meta |-> tracks[i], file |-> files[i]]]

SpResult(raised, pairs) == <<[raised |-> raised, pairs |-> pairs]>>

\* a link of each type; a track link lists its one track; the directory
\* holds files written earlier, at different times
SpInit ==
    /\ sp_in \in { in \in [link_type : {"track", "album", "playlist"}, items : TrackLists] :
                     in.link_type = "track" => Len(in.items) = 1 }
    /\ sp_pc = "start"
    /\ sp_dir \in { d \in [Tracks -> 0..2] :
                      /\ \A f, g \in Tracks : (f # g /\ d[f] > 0) => d[f] # d[g]
                      /\ sp_in.link_type # "track" => \A f \in Tracks : d[f] = 0 }
    /\ sp_clock = 2
    /\ sp_ret = UNBOUND

SpUnused ==
    /\ sp_in = [link_type |-> "none", items |-> <<>>]
    /\ sp_pc = "unused"
    /\ sp_dir = [f \in Tracks |-> 0]
    /\ sp_clock = 0
    /\ sp_ret = UNBOUND

\* _run_spotdl for the link with --overwrite skip: the files in `written`
\* are created now, files that exist are left alone; or the command fails
\* for good and the worker raises
RunSpotdl(written, fails) ==
    /\ sp_pc = "start"
    /\ written \subseteq { sp_in.items[i] : i \in 1..Len(sp_in.items) }
    /\ (sp_in.link_type = "track" /\ ~fails) => written # {}
    /\ IF fails
       THEN /\ written = {}
            /\ sp_ret' = SpResult(TRUE, <<>>)
            /\ sp_pc' = "done"
            /\ UNCHANGED <<sp_dir, sp_clock>>
       ELSE /\ sp_dir' = [f \in Tracks |->
                            IF f \in written /\ sp_dir[f] = 0
                            THEN sp_clock + 1 ELSE sp_dir[f]]
            /\ sp_clock' = sp_clock + 1
            /\ sp_pc' = "globbing"
            /\ UNCHANGED sp_ret
    /\ UNCHANGED sp_in
    /\ UNCHANGED exceptSp

\* another download of the same user, running on another worker thread,
\* writes a file into the same directory
OtherDownloadWrites(f) ==
    /\ sp_pc \in {"start", "globbing"}
    /\ sp_in.link_type = "track"
    /\ f \notin { sp_in.items[i] : i \in 1..Len(sp_in.items) }
    /\ sp_clock < MaxTime
    /\ sp_dir' = [sp_dir EXCEPT ![f] = sp_clock + 1]
    /\ sp_clock' = sp_clock + 1
    /\ UNCHANGED <<sp_in, sp_pc, sp_ret>>
    /\ UNCHANGED exceptSp

\* the rest of the worker: a track link returns the newest .m4a of the
\* download directory with the metadata of the requested track; an album or
\* playlist pairs the listed tracks with the files sorted by name
Collect ==
    /\ sp_pc = "globbing"
    /\ IF sp_in.link_type = "track"
       THEN LET files == ByMtime(sp_dir)
            IN  sp_ret' = IF files = <<>> THEN SpResult(TRUE, <<>>)
                          ELSE SpResult(FALSE, << [meta |-> sp_in.items[1],
                                                   file |-> files[Len(files)]] >>)
       ELSE sp_ret' = SpResult(FALSE, Zip(ListedTracks(sp_in), ByName(sp_dir)))
    /\ sp_pc' = "done"
    /\ UNCHANGED <<sp_in, sp_dir, sp_clock>>
    /\ UNCHANGED exceptSp

SpNext ==
    \/ \E written \in SUBSET Tracks, fails \in BOOLEAN : RunSpotdl(written, fails)
    \/ \E f \in Tracks : OtherDownloadWrites(f)
    \/ Collect

(***************************************************************************)
(* Specifications                                                          *)
(***************************************************************************)
\* a downloader has been constructed; nothing else takes part
RetrySpecInit == RetryInit /\ MergeUnused /\ LookupUnused /\ MbUnused /\ PipeUnused /\ NormUnused /\ EmbedUnused /\ FileUnused /\ ReqUnused /\ DateUnused /\ SpUnused

\* two dicts are given; nothing else takes part
MergeSpecInit == MergeInit /\ RetryUnused /\ LookupUnused /\ MbUnused /\ PipeUnused /\ NormUnused /\ EmbedUnused /\ FileUnused /\ ReqUnused /\ DateUnused /\ SpUnused

\* lookup(path, hints) is called; nothing else takes part
LookupSpecInit == LookupInit /\ RetryUnused /\ MergeUnused /\ MbUnused /\ PipeUnused /\ NormUnused /\ EmbedUnused /\ FileUnused /\ ReqUnused /\ DateUnused /\ SpUnused

\* _musicbrainz_metadata is called; nothing else takes part
MbSpecInit == MbInit /\ RetryUnused /\ MergeUnused /\ LookupUnused /\ PipeUnused /\ NormUnused /\ EmbedUnused /\ FileUnused /\ ReqUnused /\ DateUnused /\ SpUnused

\* the handler tasks process their files; nothing else takes part
PipeSpecInit == PipeInit /\ RetryUnused /\ MergeUnused /\ LookupUnused /\ MbUnused /\ NormUnused /\ EmbedUnused /\ FileUnused /\ ReqUnused /\ DateUnused /\ SpUnused

\* a record is handed to the normalizer; nothing else takes part
NormSpecInit == NormInit /\ RetryUnused /\ MergeUnused /\ LookupUnused /\ MbUnused /\ PipeUnused /\ EmbedUnused /\ FileUnused /\ ReqUnused /\ DateUnused /\ SpUnused

\* embed is called on one file; nothing else takes part
EmbedSpecInit == EmbedInit /\ RetryUnused /\ MergeUnused /\ LookupUnused /\ MbUnused /\ PipeUnused /\ NormUnused /\ FileUnused /\ ReqUnused /\ DateUnused /\ SpUnused

\* an upload is handed to the file downloader; nothing else takes part
FileSpecInit == FileInit /\ RetryUnused /\ MergeUnused /\ LookupUnused /\ MbUnused /\ PipeUnused /\ NormUnused /\ EmbedUnused /\ ReqUnused /\ DateUnused /\ SpUnused

\* two messages arrive and are handled concurrently; nothing else takes part
ReqSpecInit == ReqInit /\ RetryUnused /\ MergeUnused /\ LookupUnused /\ MbUnused /\ PipeUnused /\ NormUnused /\ EmbedUnused /\ FileUnused /\ DateUnused /\ SpUnused

\* one file goes through lookup, normalize and embed; nothing else takes part
DateSpecInit == DateInit /\ RetryUnused /\ MergeUnused /\ LookupUnused /\ MbUnused /\ PipeUnused /\ NormUnused /\ EmbedUnused /\ FileUnused /\ ReqUnused /\ SpUnused

\* the Spotify worker is called for a link; nothing else takes part
SpSpecInit == SpInit /\ RetryUnused /\ MergeUnused /\ LookupUnused /\ MbUnused /\ PipeUnused /\ NormUnused /\ EmbedUnused /\ FileUnused /\ ReqUnused /\ DateUnused

\* a download through one of the downloaders
RetrySpec == RetrySpecInit /\ [][RetryNext]_vars

\* the same, where a step that can be taken is eventually taken: the worker
\* thread runs, every run of the operation and every sleep returns
FairRetrySpec == RetrySpec /\ WF_vars(RetryNext)

\* _merge applied to every pair of dicts over MergeKeys
MergeSpec == MergeSpecInit /\ [][CallMerge]_vars

\* one call of TagLookup.lookup
LookupSpec == LookupSpecInit /\ [][LookupNext]_vars

\* _musicbrainz_metadata applied to every combination of arguments
MbNext == \E data \in RecordingData \cup ReleaseData \cup {NoRecordings, MbFailure} :
              CallMusicbrainz(data)
MbSpec == MbSpecInit /\ [][MbNext]_vars

\* the pipelines of concurrently processed files, interleaved at the awaits
PipeSpec == PipeSpecInit /\ [][PipeNext]_vars

\* _sanitize_for_embed applied once and twice to every input record
NormSpec == NormSpecInit /\ [][NormNext]_vars

\* one call of MetadataEmbedder.embed
EmbedSpec == EmbedSpecInit /\ [][EmbedNext]_vars


\* one call of FileDownloader.download_message
FileSpec == FileSpecInit /\ [][FileNext]_vars

\* two requests handled concurrently by the dispatcher
ReqSpec == ReqSpecInit /\ [][ReqNext]_vars

\* the date of one file through the pipeline
DateSpec == DateSpecInit /\ [][DateNext]_vars

\* one call of the Spotify worker
SpSpec == SpSpecInit /\ [][SpNext]_vars

(***************************************************************************)
(* Properties of the retry wrappers and of download()                      *)
(***************************************************************************)
\* the warnings the retry wrapper appended, in order
WrapperWarnings == SelectSeq(dl_warnings, LAMBDA w : w.msg.kind = "attempt failed")

\* the runs of the operation that failed
FailedAttempts == {i \in 1..Len(outs) : outs[i] # "ok"}

\* the wrapper has returned or raised
WrapperLeft == dpc \in {"post", "worker_done", "worker_raised", "returned", "escaped"}

\* the wrapper returned its success value
WrapperReturned == WrapperLeft /\ Len(outs) > 0 /\ outs[Len(outs)] = "ok"

\* C1 - Retry law, both wrappers: k failed attempts leave exactly k warnings,
\* in attempt order 1..k; failing on attempts 1 and 2 and succeeding on
\* attempt 3 returns the success value with exactly two warnings; failing on
\* all 3 attempts raises the terminal error after exactly three warnings.
C1_RetryLaw ==
    /\ WrapperWarnings =
          [i \in 1..Cardinality(FailedAttempts) |-> AttemptWarning(link_type, i, outs[i])]
    /\ (Len(outs) = 3 /\ FailedAttempts = {1, 2})
          => (WrapperReturned /\ Len(WrapperWarnings) = 2)
    /\ (Len(outs) = 3 /\ FailedAttempts = {1, 2, 3})
          => (exc = TerminalError(outs[3]) /\ Len(WrapperWarnings) = 3)

\* C2 - a fetch that exhausts its retries: the terminal error does not escape
\* download(), which returns no success, exactly one failure entry (the url
\* and the error message) and the warnings of the failed attempts.
C2_TerminalErrorIsOneFailure ==
    /\ dpc # "escaped"
    /\ (exc.msg.kind = "failed after" /\ dpc # "worker_raised") =>
          /\ dpc = "returned"
          /\ ret.returned
          /\ ret.successes = <<>>
          /\ ret.failures = << [item |-> "url", err |-> exc.msg] >>
          /\ ret.warnings = dl_warnings
          /\ Len(WrapperWarnings) = MAX_RETRIES

C2_Witness ==
    /\ dpc = "returned"
    /\ exc.msg.kind = "failed after"
    /\ Len(ret.failures) = 1
    /\ Len(ret.warnings) >= MAX_RETRIES

RECURSIVE Pow2(_)
Pow2(n) == IF n = 0 THEN 1 ELSE 2 * Pow2(n - 1)

\* the schedule of the wrapper, read off the event log
Schedule ==
    /\ Cardinality({i \in 1..Len(log) : log[i][1] = "run"}) <= MAX_RETRIES
    /\ \A i \in 1..Len(log) :
          LET ev == log[i][1]
              n  == log[i][2] IN
          /\ ev = "run" =>
                /\ n \in 1..MAX_RETRIES
                /\ IF n = 1 THEN i = 1
                   ELSE /\ i > 2
                        /\ log[i - 1] = <<"sleep", INITIAL_DELAY * Pow2(n - 2)>>
                        /\ log[i - 2] = <<"fail", n - 1>>
          /\ ev = "sleep" =>
                /\ i > 1
                /\ log[i - 1][1] = "fail"
                /\ log[i - 1][2] < MAX_RETRIES
                /\ n = INITIAL_DELAY * Pow2(log[i - 1][2] - 1)
          /\ ev \in {"ok", "fail"} => (i > 1 /\ log[i - 1] = <<"run", n>>)
          /\ (ev = "fail" /\ n = MAX_RETRIES) => i = Len(log)
          /\ ev = "ok" => i = Len(log)

\* C3 - the wrapper runs the operation at most MAX_RETRIES times, attempt k+1
\* starts only after attempt k failed and the wait INITIAL_DELAY * 2^(k-1)
\* elapsed, nothing is waited for after the last failed attempt, nothing is
\* attempted after a success, and the wrapper always comes to an end.
C3_SequentialBackoff == []Schedule /\ <>WrapperLeft

C3_Witness ==
    log = << <<"run", 1>>, <<"fail", 1>>, <<"sleep", 5>>,
             <<"run", 2>>, <<"fail", 2>>, <<"sleep", 10>>,
             <<"run", 3>>, <<"fail", 3>> >>

\* C4 as stated - a failure on invalid input is fatal: the operation is not
\* run again after it; a network / process failure is retried until the
\* attempt limit; in both wrappers.
C4_FatalNotRetried ==
    \A i \in 1..Len(outs) :
       /\ outs[i] = "invalid" => i = Len(outs)
       /\ (outs[i] = "network" /\ i < MAX_RETRIES /\ WrapperLeft)
             => Len(outs) > i

\* the failures each wrapper retries: every one in _run_ytdlp, a nonzero
\* exit of the CLI (whatever its cause) in _run_spotdl
Retried(p, o) == p = "youtube" \/ o \in {"network", "invalid"}

\* C4 as amended - no failure is classified by its cause: _run_ytdlp retries
\* every failure, invalid input included, until the attempt limit;
\* _run_spotdl retries every nonzero exit of the CLI, invalid input included,
\* until the attempt limit, and a failure to run the CLI at all is not
\* retried.
C4_RetriedByExceptionClass ==
    \A i \in 1..Len(outs) :
       /\ (outs[i] # "ok" /\ Retried(platform, outs[i]) /\ i < MAX_RETRIES /\ WrapperLeft)
             => Len(outs) > i
       /\ (outs[i] # "ok" /\ ~Retried(platform, outs[i])) => i = Len(outs)

C4_Witness ==
    /\ platform = "youtube"
    /\ Len(outs) = 3
    /\ outs[1] = "invalid"
    /\ outs[2] = "oserror"
    /\ WrapperLeft

(***************************************************************************)
(* Properties of _merge                                                    *)
(***************************************************************************)
\* C5 as stated - merge(dst, src) copies src[k] into dst[k] iff src[k] is
\* non-empty and dst[k] is empty; it never overwrites a non-empty field,
\* never writes an empty value and leaves every other key unchanged.
C5_CopiesIffNonEmpty ==
    m_out # UNBOUND =>
       \A k \in MergeKeys :
          m_out[1][k] = IF Truthy(m_src[k]) /\ ~Truthy(m_dst[k])
                        THEN m_src[k] ELSE m_dst[k]

\* C5 as amended - merge(dst, src) copies src[k] into dst[k] iff src[k] is
\* present and not None and dst[k] is empty; it never overwrites a non-empty
\* field and leaves every other key unchanged (an empty value that is not
\* None, such as "", is copied into an empty field).
C5_CopiesIffNotNone ==
    m_out # UNBOUND =>
       \A k \in MergeKeys :
          /\ Truthy(m_dst[k]) => m_out[1][k] = m_dst[k]
          /\ m_out[1][k] # m_dst[k] =>
                (m_out[1][k] = m_src[k] /\ m_src[k] \notin {MISSING, NONE})
          /\ (m_src[k] \notin {MISSING, NONE} /\ ~Truthy(m_dst[k]))
                => m_out[1][k] = m_src[k]

C5_Witness ==
    /\ m_out # UNBOUND
    /\ m_src["title"] = "" /\ m_dst["title"] = MISSING /\ m_out[1]["title"] = ""
    /\ m_src["genre"] = "new" /\ m_dst["genre"] = "old" /\ m_out[1]["genre"] = "old"

(***************************************************************************)
(* Properties of TagLookup.lookup                                          *)
(***************************************************************************)
\* C6 - from step 3 on a field that holds a value is never overwritten by a
\* later (lower-precedence) source; when secondary and tertiary enrichment
\* both supply a genre the resolved genre is not the tertiary one; a catalog
\* value never replaces a value present after steps 1-2.
C6_PrecedenceKept ==
    /\ [][ (lpc \in {"s3", "s4", "s5", "s6", "s7"} =>
              (\A k \in Keys : Truthy(meta[k]) => meta'[k] = meta[k])) ]_vars
    /\ [](lk_result = "returned" =>
            /\ (Truthy(supplied["lastfm"]["genre"]) /\ Truthy(supplied["discogs"]["genre"]))
                  => meta["genre"] \in {supplied["tags"]["genre"], hints["genre"],
                                        supplied["lastfm"]["genre"]}
            /\ \A k \in Keys :
                  (meta[k] = supplied["musicbrainz"][k] /\ Truthy(meta[k]))
                     => (~Truthy(supplied["tags"][k]) /\ ~Truthy(hints[k])))

C6_Witness ==
    /\ lk_result = "returned"
    /\ supplied["musicbrainz"]["title"] = "mb"
    /\ supplied["lastfm"]["title"] = "lf"
    /\ meta["title"] = "mb"
    /\ supplied["lastfm"]["genre"] = "lf"
    /\ supplied["discogs"]["genre"] = "dc"
    /\ meta["genre"] = "lf"

\* an existing tag and the catalog both supplied a title, lookup returned
BothSupplyTitle ==
    /\ lk_result = "returned"
    /\ Truthy(supplied["tags"]["title"])
    /\ Truthy(supplied["musicbrainz"]["title"])

\* C7 as stated - if an existing tag and the catalog both supply a title, the
\* returned title is the tag's when prefer_existing is true and the
\* catalog's when it is false.
C7_PrecedenceLaw ==
    BothSupplyTitle =>
       meta["title"] = IF cfg.prefer_existing
                       THEN supplied["tags"]["title"]
                       ELSE supplied["musicbrainz"]["title"]

\* C7 as amended - if an existing tag and the catalog both supply a title,
\* the returned title is never the catalog's: it is the hint's title when
\* prefer_existing is false and a title hint is supplied, and the existing
\* tag's title otherwise, for both values of prefer_existing.
C7_TagOrHintOverCatalog ==
    BothSupplyTitle =>
       meta["title"] = IF ~cfg.prefer_existing /\ Truthy(hints["title"])
                       THEN hints["title"]
                       ELSE supplied["tags"]["title"]

C7_Witness ==
    /\ BothSupplyTitle
    /\ ~cfg.prefer_existing
    /\ ~Truthy(hints["title"])
    /\ meta["title"] = "tag"

\* C8 - step 2: with prefer_existing a hint is written only into a field
\* that is empty after the tags were read; without it every supplied (non
\* empty) hint overwrites the field; a field without a hint keeps its value.
C8_HintMerging ==
    [][ (lpc = "s2" =>
          \A k \in Keys :
             /\ (cfg.prefer_existing /\ meta'[k] # meta[k])
                   => (~Truthy(meta[k]) /\ meta'[k] = hints[k])
             /\ (cfg.prefer_existing /\ Truthy(hints[k]) /\ ~Truthy(meta[k]))
                   => meta'[k] = hints[k]
             /\ (~cfg.prefer_existing /\ Truthy(hints[k])) => meta'[k] = hints[k]
             /\ ~Truthy(hints[k]) => meta'[k] = meta[k]) ]_vars

C8_Witness ==
    /\ last.step = "s2"
    /\ ~cfg.prefer_existing
    /\ supplied["tags"]["title"] = "tag"
    /\ supplied["tags"]["genre"] = "tag"
    /\ meta["title"] = "hint"
    /\ meta["genre"] = "tag"

\* C9 - lookup never raises: whatever adapters throw and whatever the
\* configuration, the call returns (meta, warnings).
C9_NeverRaises ==
    /\ lk_result # "raised"
    /\ lpc = "done" => lk_result = "returned"

\* the adapters that threw in this call
Thrown == {lk_warnings[i].msg : i \in {j \in 1..Len(lk_warnings) : lk_warnings[j].failed}}

C9_Witness ==
    /\ lk_result = "returned"
    /\ Thrown = {"tags", "acoustid", "musicbrainz", "lastfm", "discogs"}

\* the adapter of a step and the step after it
AdapterOf(st) ==
    CASE st = "s1" -> "tags" [] st = "s3" -> "acoustid" [] st = "s4" -> "musicbrainz"
      [] st = "s5" -> "cover" [] st = "s6" -> "lastfm" [] st = "s7" -> "discogs"
      [] OTHER -> "none"
StepAfter(st) ==
    CASE st = "s1" -> "s2" [] st = "s3" -> "s4" [] st = "s4" -> "s5"
      [] st = "s5" -> "s6" [] st = "s6" -> "s7" [] OTHER -> "done"

\* the condition under which a step calls its adapter
StepCondition(st) ==
    CASE st = "s1" -> TRUE
      [] st = "s3" -> cfg.acoustid
      [] st = "s4" -> Truthy(recording_mbid) \/ Truthy(release_mbid)
                      \/ Truthy(artist_hint) \/ Truthy(title_hint)
      [] st = "s5" -> /\ cfg.fetch_cover_art
                      /\ ~Truthy(meta["cover_bytes"])
                      /\ \/ Truthy(release_mbid)
                         \/ mb_meta # UNBOUND /\ Truthy(mb_meta[1]["release_mbid"])
      [] st = "s6" -> cfg.lastfm /\ (Truthy(artist_hint) \/ Truthy(title_hint))
      [] st = "s7" -> cfg.discogs /\ (Truthy(artist_hint) \/ Truthy(meta["album"]))
      [] OTHER -> FALSE

\* C10 - an exception in an adapter becomes exactly one warning (file name,
\* adapter), leaves the record unchanged, and the resolution goes on: every
\* later step whose condition holds still calls its adapter.
C10_AdapterFailureIsWarning ==
    /\ [][ (last'.raised =>
              /\ lk_warnings' = Append(lk_warnings, FailWarning(AdapterOf(lpc)))
              /\ meta' = meta
              /\ mb_meta' = mb_meta
              /\ lpc' = StepAfter(lpc)) ]_vars
    /\ [][ (lpc \in {"s1", "s3", "s4", "s5", "s6", "s7"} /\ StepCondition(lpc))
              => (AdapterOf(lpc) \in ran' /\ last'.called) ]_vars
    /\ [][ (lpc \in {"s3", "s4", "s5", "s6", "s7"} => lpc' = StepAfter(lpc)) ]_vars

C10_Witness ==
    /\ lk_result = "returned"
    /\ Thrown = {"musicbrainz"}
    /\ Len(lk_warnings) = 1
    /\ {"lastfm", "discogs"} \subseteq ran
    /\ supplied["lastfm"]["genre"] = "lf"
    /\ meta["genre"] = "lf"

(***************************************************************************)
(* Properties of the acoustic identification step                          *)
(***************************************************************************)
\* step 3 runs _fp_lookup on the response `in`, whose results the first
\* loop can read
Step3Reads(in) ==
    /\ in.ok
    /\ in.shape = "tuple"
    /\ Step3(in)

C12_SelectsBestCandidate ==
    [][ ((lpc = "s3" /\ cfg.acoustid) => \A in \in FpInputs :
           (/\ Len(in.results) > 0
            /\ BestScore(in.results, 1, 0) >= cfg.min_confidence
            /\ Step3Reads(in))
           => recording_mbid' = BestRec(in.results, 1, 0, NONE)) ]_vars

(***************************************************************************)
(* Properties of the catalog lookup                                        *)
(***************************************************************************)
\* C13 - identifier-based lookup takes precedence over text search: with a
\* recording identifier the one request made is the recording fetch, else
\* with a release identifier it is the release fetch, the text search is
\* issued only when neither identifier is available, and a call makes at
\* most one request.
C13_IdentifierBeforeSearch ==
    mb_ret # UNBOUND =>
        /\ Len(mb_requests) <= 1
        /\ Truthy(mb_args.recording_mbid) => mb_requests = <<"recording">>
        /\ (~Truthy(mb_args.recording_mbid) /\ Truthy(mb_args.release_mbid))
              => mb_requests = <<"release">>
        /\ (\E i \in DOMAIN mb_requests : mb_requests[i] = "search")
              => (~Truthy(mb_args.recording_mbid) /\ ~Truthy(mb_args.release_mbid))

\* a release identifier, an artist and a title are given but no recording
\* identifier: the release was fetched, nothing was searched
C13_Witness ==
    /\ mb_ret # UNBOUND
    /\ ~mb_ret[1].raised
    /\ mb_ret[1].value["album"] = "mb"
    /\ ~Truthy(mb_args.recording_mbid)
    /\ Truthy(mb_args.release_mbid)
    /\ Truthy(mb_args.artist)
    /\ Truthy(mb_args.title)
    /\ mb_requests = <<"release">>

(***************************************************************************)
(* Properties of the enrichment steps                                      *)
(***************************************************************************)
\* the record holds a non-empty value under one of the two keys
Knows(k1, k2) == Truthy(Get(meta, k1)) \/ Truthy(Get(meta, k2))

\* step 6 calls Last.fm exactly when it is configured and the record holds
\* an artist or a title at that moment
SecondaryRunsIffKnown ==
    [][ (lpc = "s6" =>
           (last'.called <=> (cfg.lastfm /\ Knows("artist", "title")))) ]_vars

\* step 7 calls Discogs exactly when it is configured and the record holds
\* an artist or an album at that moment
TertiaryRunsIffKnown ==
    [][ (lpc = "s7" =>
           (last'.called <=> (cfg.discogs /\ Knows("artist", "album")))) ]_vars

\* C14 - secondary enrichment runs if and only if it is configured and the
\* record holds a non-empty artist or title when step 6 is reached; tertiary
\* enrichment runs if and only if it is configured and the record holds a
\* non-empty artist or album when step 7 is reached.
C14_EnrichmentRunsIffKnown == SecondaryRunsIffKnown /\ TertiaryRunsIffKnown

(***************************************************************************)
(* Properties of the per-file pipeline                                     *)
(***************************************************************************)
\* the order of the stages the specification gives
StageOrder ==
    <<"read", "hints", "identify", "catalog", "cover", "secondary", "tertiary",
      "returned", "normalize", "embed">>
StageIndex(st) == CHOOSE i \in DOMAIN StageOrder : StageOrder[i] = st

\* the events of one file: start and end alternate, an end belongs to the
\* start before it, and a start is of a later stage than the end before it
InOrder(h) ==
    \A i \in DOMAIN h :
        /\ h[i][2] = (IF i % 2 = 1 THEN "start" ELSE "end")
        /\ (i % 2 = 0) => h[i][1] = h[i - 1][1]
        /\ (i % 2 = 1 /\ i > 1) => StageIndex(h[i][1]) > StageIndex(h[i - 1][1])

\* C15 - within one file's pipeline the stages occur strictly in the order
\* read tags, hints, identify, catalog, cover, secondary, tertiary,
\* normalize, embed; no stage starts before the previous one of that file
\* has ended, whatever the other files' tasks do in between; embed starts
\* only after lookup has returned for that file.
C15_StagesInOrder ==
    \A f \in PipeFiles :
        /\ InOrder(p_hist[f])
        /\ \A i \in DOMAIN p_hist[f] :
              p_hist[f][i] = <<"embed", "start">> =>
                  \E j \in 1..(i - 1) : p_hist[f][j] = <<"returned", "end">>

\* file b's task is suspended in its catalog request while file a went
\* through every stage, embed included
C15_Witness ==
    /\ p_pc["a"] = "finished"
    /\ Len(p_hist["a"]) = 2 * Len(StageOrder)
    /\ p_wait["b"]
    /\ p_pc["b"] = "catalog"

(***************************************************************************)
(* Properties of the normalizer                                            *)
(***************************************************************************)
\* C16 - the normalizer is deterministic and idempotent: normalizing the
\* normalized record returns it unchanged, normalize(normalize(x)) ==
\* normalize(x), for every record x.
C16_Idempotent ==
    n_twice # UNBOUND => (~n_twice[1].raised /\ n_twice[1].value = n_once[1].value)

\* a record the first pass changes in its numbers, names and date went
\* through two passes
C16_Witness ==
    /\ n_twice # UNBOUND
    /\ n_in["track_number"] = ListV(<<StrV(S5)>>)
    /\ n_in["album_artist"] = MissingV
    /\ n_in["release_date"] = StrV(SDate)
    /\ n_once[1].value["track_number"] = IntV(5)
    /\ n_once[1].value["album_artist"] = StrV(<<"a">>)
    /\ n_once[1].value["date"] = StrV(<<"2", "0", "0", "1">>)

\* C17 - track / disc number coercion: 5, "5", "5/12" and ["5"] all
\* normalize to the integer 5, "unknown" leaves the field absent, and the
\* normalizer raises for no input.
C17_NumberCoercion ==
    n_once # UNBOUND =>
        /\ ~n_once[1].raised
        /\ \A k \in {"track_number", "disc_number"} :
              /\ n_in[k] \in {IntV(5), StrV(S5), StrV(S5of12), ListV(<<StrV(S5)>>)}
                    => n_once[1].value[k] = IntV(5)
              /\ n_in[k] = StrV(SUnknown) => n_once[1].value[k] = MissingV

\* "5/12" became 5 and "unknown" was dropped in one record
C17_Witness ==
    /\ n_once # UNBOUND
    /\ n_in["track_number"] = StrV(S5of12)
    /\ n_in["disc_number"] = StrV(SUnknown)
    /\ n_once[1].value["track_number"] = IntV(5)
    /\ n_once[1].value["disc_number"] = MissingV

\* C18 - the normalizer derives the 4-digit year from a date-like string
\* (release_date "2001-05-01" gives the year "2001"), and a date value from
\* which no year can be derived is dropped from the record, without error.
C18_YearDerivedOrDropped ==
    n_once # UNBOUND =>
        /\ ~n_once[1].raised
        /\ n_in["release_date"] = StrV(SDate)
              => n_once[1].value["date"] = StrV(<<"2", "0", "0", "1">>)
        /\ \A k \in {"release_date", "date"} :
              (n_in[k] \notin {MissingV, NoneV} /\ YearFromDate(n_in[k]) = NoneV)
                  => n_once[1].value[k] = MissingV

\* C19 - the normalized record holds no remote cover URL once cover bytes
\* are present, no free-text descriptive field (description, tags) and no
\* key whose value is null.
C19_StripsNonEmbeddable ==
    n_once # UNBOUND =>
        /\ TruthyV(n_once[1].value["cover_bytes"])
              => n_once[1].value["cover_url"] = MissingV
        /\ n_once[1].value["description"] = MissingV
        /\ n_once[1].value["tags"] = MissingV
        /\ \A k \in NormKeys : n_once[1].value[k] # NoneV

(***************************************************************************)
(* Properties of the embedder                                              *)
(***************************************************************************)
\* C20 - embed on a file whose extension is not .mp3, .m4a or .mp4 raises
\* the unsupported-format error, never returns silently, and neither opens
\* nor writes the file, which is the same afterwards as before.
C20_UnsupportedRaises ==
    (e_suffix \in {".flac", ".ogg", ""} /\ e_result # NoResult) =>
        /\ e_result = Raised("unsupported")
        /\ ~e_opened
        /\ e_file = e_orig

\* a .flac file that holds tags, a record with new values and a cover
C20_Witness ==
    /\ e_suffix = ".flac"
    /\ e_result = Raised("unsupported")
    /\ e_file.valid
    /\ e_file.tags["title"] = "old"
    /\ e_meta.title = "new"
    /\ e_cover = "bytes"

\* C22 - embed sets a tag only if the field is present in the record: after
\* a successful embed on an MP3 or M4A file, every tag whose field is absent
\* or empty in the record is what the file held before, and embedding the
\* same record once more leaves the tag set as it is.
C22_SetsOnlyPresentFields ==
    (Container(e_suffix) # "unsupported" /\ e_result = Returned) =>
        /\ \A k \in TagKeys : ~Truthy(e_meta[k]) => e_file.tags[k] = e_orig.tags[k]
        /\ (IF Container(e_suffix) = "mp3"
            THEN Mp3Tags(e_file, e_meta, e_cover)
            ELSE M4aTags(e_file, e_meta, e_cover)) = e_file

(***************************************************************************)
(* Properties of the file downloader                                       *)
(***************************************************************************)
\* the extension the whitelist is compared with
UploadExt == InferExt(fd_in.filename, fd_in.mime)

\* C30 - with a whitelist configured, an upload is saved only if its
\* inferred extension is in the whitelist; any other upload yields exactly
\* one failure entry, no success entry and no download; and every call
\* returns exactly one entry in total.
C30_WhitelistEnforced ==
    fd_out # UNBOUND =>
        /\ Len(fd_out[1].successes) + Len(fd_out[1].failures) = 1
        /\ (fd_in.allowed # {} /\ fd_in.payload # "none") =>
              IF UploadExt \in fd_in.allowed
              THEN TRUE
              ELSE /\ fd_out[1].successes = <<>>
                   /\ Len(fd_out[1].failures) = 1
                   /\ ~fd_out[1].downloaded

(***************************************************************************)
(* Properties of the message handlers                                      *)
(***************************************************************************)
\* C21 - a tagging error raised by embed for an item is reported as a
\* failure for that item: in the summary the item is in the failure list and
\* not in the success list, and the other items of the batch were processed.
C21_EmbedErrorIsFailure ==
    \A r \in Reqs :
        (rq_out[r] # UNBOUND /\ rq_out[r][1].kind = "summary") =>
            \A item \in rq_err[r] :
                /\ item \in Range(rq_out[r][1].failures)
                /\ item \notin Range(rq_out[r][1].successes)

\* C24 - every file path has at most one writer at a time: in no interleaving
\* of concurrently handled requests do the fetch or embed operations of two
\* requests mutate the same path at the same time.
C24_SingleWriter ==
    \A r \in Reqs, s \in Reqs :
        r # s => rq_writing[r] \cap rq_writing[s] = {}

\* C25 - the warnings reported in a request's summary are exactly those its
\* own fetch, lookup and embed steps produced, in every interleaving with
\* another request.
C25_WarningsPrivate ==
    \A r \in Reqs :
        (rq_out[r] # UNBOUND /\ rq_out[r][1].kind = "summary") =>
            rq_out[r][1].warnings = rq_own[r]

\* both requests ran interleaved, each reported warnings of its fetch, its
\* lookup and its embed
C25_Witness ==
    \A r \in Reqs :
        /\ rq_out[r] # UNBOUND
        /\ rq_out[r][1].kind = "summary"
        /\ { w[2] : w \in Range(rq_out[r][1].warnings) } = {"fetch", "lookup", "embed"}

\* the operations that touch the disk or the services
GatedOps == {"mkdir", "download", "lookup", "embed"}

\* C27 - a message whose sender is not in the allowed set gets the rejection
\* reply only: no directory creation, download, lookup or embed is performed
\* for it; these operations are performed only for allowed senders.
C27_AuthorizationGate ==
    \A r \in Reqs :
        /\ rq_in[r].user \notin Allowed =>
              /\ rq_ops[r] \subseteq {"reply"}
              /\ rq_out[r] # UNBOUND => rq_out[r][1].kind = "rejected"
        /\ rq_ops[r] \cap GatedOps # {} => rq_in[r].user \in Allowed

\* a sender outside the allowed set was rejected for an upload while an
\* allowed sender's request ran to its summary
C27_Witness ==
    /\ rq_in["r1"] = [user |-> "mallory", link |-> "upload"]
    /\ rq_out["r1"] # UNBOUND
    /\ rq_out["r1"][1].kind = "rejected"
    /\ rq_ops["r1"] = {"reply"}
    /\ rq_out["r2"] # UNBOUND
    /\ rq_out["r2"][1].kind = "summary"

(***************************************************************************)
(* Properties of the scheduling of blocking work                           *)
(***************************************************************************)
\* the stages of a file's pipeline that do blocking work: reading the tags
\* from the file, fingerprinting it, writing the tags into it
BlockingStages == {"read", "identify", "embed"}

\* C23 - the blocking work of a file runs on the worker pool and is awaited:
\* a blocking stage starts by suspending its task, so that between its start
\* and its end the loop can run another task; it never runs from start to
\* end in one step of the loop.
C23_BlockingWorkOffloaded ==
    [][ \A f \in PipeFiles :
          (p_pc[f] \in BlockingStages /\ p_hist'[f] # p_hist[f]) =>
              (p_wait[f] \/ p_wait'[f]) ]_vars

C28_ReturnsRequestedTrack ==
    (sp_in.link_type = "track" /\ sp_ret # UNBOUND /\ ~sp_ret[1].raised) =>
        /\ Len(sp_ret[1].pairs) = 1
        /\ sp_ret[1].pairs[1].file = sp_in.items[1]
        /\ sp_ret[1].pairs[1].meta = sp_ret[1].pairs[1].file

\* C29 - for an album or playlist every returned pair joins a file with the
\* metadata of the track the file contains, for any subset of tracks that
\* was written, and every file written is in the result.
C29_PairsFileWithItsTrack ==
    (sp_in.link_type \in {"album", "playlist"} /\ sp_ret # UNBOUND /\ ~sp_ret[1].raised) =>
        /\ \A i \in 1..Len(sp_ret[1].pairs) :
              sp_ret[1].pairs[i].meta = sp_ret[1].pairs[i].file
        /\ { sp_ret[1].pairs[i].file : i \in 1..Len(sp_ret[1].pairs) } = Present(sp_dir)
====
